---- MODULE Spec2Model ----
(***************************************************************************)
(* A model of the gateway connection handler of curious                    *)
(* (curious/core/gateway.py): one GatewayHandler, its session state, its   *)
(* heartbeat counters and heartbeater tasks, the zlib-stream buffer and    *)
(* the websocket it sends on.                                              *)
(*                                                                         *)
(* The main task is the consumer of GatewayHandler.events(). Its position  *)
(* is pc: it is suspended either waiting for the next transport event      *)
(* ("wait") or inside an awaited send ("hello_hb", "hello_auth",           *)
(* "hb_reply", "inv_send"). What runs between two suspensions is one      *)
(* action; "handled" is the point where a handler has returned or yielded  *)
(* its event and the caller has not yet asked for the next transport       *)
(* event. Heartbeater tasks run only while the main task is suspended.     *)
(***************************************************************************)
EXTENDS Integers, Sequences, FiniteSets, TLC

(* ------------------------------ bounds -------------------------------- *)

\* Largest sequence number the server puts in an envelope.
MaxSeq == 1
\* Number of distinct session ids the server hands out in READY.
NumSessions == 1
\* Cap on the heartbeat counters (they are unbounded in the program).
MaxBeats == 3
\* Cap on the heartbeat frames the server has received and not yet acked.
MaxOwed == 1
\* Number of heartbeater task slots.
MaxTasks == 2
\* Largest number of compressed body bytes of one message (beside the
\* zlib header of the first message and the flush suffix).
MaxBody == 1
MaxSilent == 2
MaxShards == 3
MaxCycles == 2
MaxClock == 16
MaxFired == 2

(* ------------------------- program constants -------------------------- *)

\* Python's None (an absent session id, sequence, or envelope field).
None == -1

\* GatewayOp
DISPATCH == 0
HEARTBEAT == 1
IDENTIFY == 2
PRESENCE == 3
RESUME == 6
RECONNECT == 7
INVALIDATE_SESSION == 9
HELLO == 10
HEARTBEAT_ACK == 11
\* An integer that is no member of GatewayOp.
UnknownOp == 99

\* Close codes used by the handler.
ZombieCode == 1006
NormalCode == 1000
\* UniversalWrapper.__init__: the capacity of the queue
QueueSize == 5
\* manage_all_shards: the seconds slept after each shard is spawned
ShardDelay == 5

\* Bytes of the compressed stream: the two byte values of the flush
\* suffix, the first byte of a zlib stream (its header), any other byte.
ByteZero == 0
ByteFF == 255
ZlibHeader == 120
BodyByte == 1
ZLIB_FLUSH_SUFFIX == <<ByteZero, ByteZero, ByteFF, ByteFF>>

\* The values of `should_resume` in the INVALIDATE_SESSION branch: the
\* JSON booleans, and a non-empty str (the raw payload text).
PyFalse == 0
PyTrue == 1
PyText == 2

Tasks == 1..MaxTasks
ShardIds == 0..(MaxShards - 1)
SessionIds == 1..NumSessions
SeqVals == {None} \cup (0..MaxSeq)

VARIABLES
    session_id,         \* _GatewayState.session_id
    sequence,           \* _GatewayState.sequence
    authenticated,      \* _GatewayState.authenticated
    heartbeats,         \* HeartbeatStats.heartbeats
    heartbeat_acks,     \* HeartbeatStats.heartbeat_acks
    stop_heartbeating,  \* GatewayHandler._stop_heartbeating (an event)
    databuffer,         \* GatewayHandler._databuffer
    decompressor,       \* GatewayHandler._decompressor: "fresh" | "streaming"
    ws,                 \* the websocket: "none" | "connecting" | "open" | "closing" | "closed"
    cancelled,          \* UniversalWrapper._cancelled
    pending_close,      \* a Closing event was produced and is not yet consumed
    wire,               \* bytes of the server's current message not yet received
    srv_started,        \* the server has begun its zlib stream on this connection
    acks_owed,          \* heartbeat frames the server received and has not acked
    pc,                 \* position of the main task
    cur,                \* the envelope whose handler is suspended in a send
    pending,            \* the frame of the main task's awaited send
    log,                \* frames sent and events yielded by the current handler
    hb,                 \* heartbeater tasks: the position of each
    hb_log,             \* what the latest heartbeater tick did
    zombied,            \* history: a zombie close happened, and since then no
                        \* HELLO was handled to its end and no
                        \* INVALIDATE_SESSION arrived
    reconnecting,       \* history: a RECONNECT was handled with a session id
                        \* stored, and since then no HELLO was handled to
                        \* its end and no INVALIDATE_SESSION arrived
    stale,              \* history: the heartbeater tasks that were in a send
                        \* when close() or a Closing event stopped
                        \* heartbeating, and have not ended since
    handshake,          \* the last IDENTIFY or RESUME the server received on
                        \* this connection: "none" | "IDENTIFY" | "RESUME"
    link_dead,          \* the server's HEARTBEAT_ACKs no longer arrive on
                        \* this connection
    silent_ticks,       \* history: the ticks made on an authenticated session
                        \* with a session id since the acks stopped arriving
    error,              \* the exception that left events(), or "none"
    dropped,            \* history: the last Connecting event discarded
                        \* buffered bytes
    fleet_pc,           \* position of the task that called run_async
    shard_count,        \* run_bot_in_sharded_mode's local shard_count
    autoshard,          \* run_async's argument
    allow_resharding,   \* run_async's argument
    next_shard,         \* manage_all_shards: the loop variable `shard`
    wake_at,            \* manage_all_shards: when its sleep ends
    clock,              \* seconds since manage_all_shards was entered
    ready_state,        \* Client._ready_state
    gateways,           \* Client._gateways: shard id -> the boot cycle that
                        \* made the gateway
    shards,             \* the run_shard tasks: "none" | "running" |
                        \* "cancelled" | "ended"
    cycle,              \* history: the boot cycles begun so far
    fired,              \* history: shards_ready events fired in this cycle
    started_at,         \* history: the clock at each shard's start
    fleet_error,        \* the exception that left run_async, or "none"
    live,               \* the gateways, as <<cycle, shard id>>, opened by
                        \* open_websocket and not yet cleaned up by it
    queue,              \* UniversalWrapper._queue
    producer,           \* the thread running _generator: its position
    item,               \* _generator: the item it is about to put
    consumer,           \* the task iterating run(): its position
    exit_event,         \* UniversalWrapper._cancelled, as the wrapper's
                        \* thread and run() see it
    link,               \* lomond's persist generator: "new" | "up" | "down"
    kill_at,            \* history: where the consumer was when
                        \* close(kill=True) was called, or "none"
    reconnected         \* history: persist began a connection after the kill

vars == <<session_id, sequence, authenticated, heartbeats, heartbeat_acks,
          stop_heartbeating, databuffer, decompressor, ws, cancelled,
          pending_close, wire, srv_started, acks_owed, pc, cur, pending, log,
          hb, hb_log, zombied, reconnecting, stale, handshake, link_dead,
          silent_ticks, error, dropped, fleet_pc, shard_count, autoshard,
          allow_resharding, next_shard, wake_at, clock, ready_state, gateways,
          shards, cycle, fired, started_at, fleet_error, live, queue, producer,
          item, consumer, exit_event, link, kill_at, reconnected>>

sessionVars == <<session_id, sequence, authenticated>>
statVars == <<heartbeats, heartbeat_acks>>
zlibVars == <<databuffer, decompressor>>
serverVars == <<wire, srv_started>>
fleetVars == <<fleet_pc, shard_count, autoshard, allow_resharding, next_shard,
               wake_at, clock, ready_state, gateways, shards, cycle, fired,
               started_at, fleet_error, live>>
wrapVars == <<queue, producer, item, consumer, exit_event, link, kill_at,
              reconnected>>
restVars == <<dropped, fleetVars, wrapVars>>
auxVars == <<reconnecting, stale, handshake, link_dead, silent_ticks, error,
             restVars>>

(* ------------------------------ values -------------------------------- *)

\* An effect of a handler: a frame handed to the websocket, an event
\* yielded to the caller, a close() call, the start of a tick, or an
\* increment of a dispatch counter.
Eff(kind, name, a, b) == [kind |-> kind, name |-> name, a |-> a, b |-> b]

\* A Python int, and the pair (url, shards) get_gateway_url returns when
\* asked for the shard count.
IntValue(n) == [type |-> "int", n |-> n]
PairValue(n) == [type |-> "tuple", n |-> n]

\* An empty dict.
NoEntries == [s \in {} |-> 0]

Env(op, s, t, d) == [op |-> op, s |-> s, t |-> t, d |-> d]
NoEnv == Env(None, None, "", None)
NoFrame == Eff("none", "", None, None)

\* The envelopes the server may send.
Envelopes ==
    {Env(op, s, "", None) :
        op \in {HELLO, HEARTBEAT, HEARTBEAT_ACK, RECONNECT, PRESENCE, UnknownOp},
        s \in SeqVals}
    \cup {Env(INVALIDATE_SESSION, s, "", d) :
            s \in SeqVals, d \in {PyTrue, PyFalse, None}}
    \cup {Env(DISPATCH, s, t, None) :
            s \in SeqVals, t \in {"", "RESUMED", "MESSAGE_CREATE"}}
    \cup {Env(DISPATCH, s, "READY", d) : s \in SeqVals, d \in SessionIds}



(* ------------------------- the websocket ------------------------------ *)

\* UniversalWrapper.send_text: what sending on the websocket does in each
\* of its states. With no WebSocket object the call does nothing; lomond
\* refuses to send on a socket that is not ready, closing or closed.
SendOutcome(w) ==
    CASE w = "open" -> "ok"
      [] w = "none" -> "noop"
      [] w = "connecting" -> "WebSocketUnavailable"
      [] w = "closing" -> "WebSocketClosing"
      [] w = "closed" -> "WebSocketClosed"

\* UniversalWrapper.close: the state of the websocket after _ws.close().
WsAfterClose(w) == IF w = "open" THEN "closing" ELSE w

\* A close() that never cancels.
CancelledAfterClose_Never(c, kill) == c

\* UniversalWrapper.close: the cancel flag after close(kill = ...).
CancelledAfterClose(c, kill) == c \/ kill

\* An Event.set() that wakes no task.
SetEvent_WakesNone(h) == h

\* Event.set(): every task waiting on the event is woken; a woken
\* heartbeater leaves its loop without another effect, whatever happens to
\* the event afterwards.
SetEvent(h) ==
    [t \in Tasks |-> IF h[t] = "waiting" THEN "none" ELSE h[t]]

(* --------------------------- the zlib stream -------------------------- *)

\* The bytes of one compressed message: the zlib header if it is the first
\* of the stream, n body bytes, and the sync-flush suffix.
Message(n, first) ==
    (IF first THEN <<ZlibHeader>> ELSE <<>>)
        \o [i \in 1..n |-> BodyByte] \o ZLIB_FLUSH_SUFFIX

\* A bytearray that is left as it is.
Cleared_Kept(buf) == buf

\* bytearray.clear()
Cleared(buf) == <<>>

\* bytes.endswith
EndsWith(data, suffix) ==
    /\ Len(data) >= Len(suffix)
    /\ SubSeq(data, Len(data) - Len(suffix) + 1, Len(data)) = suffix

\* decompressobj.decompress(buf): a fresh context accepts only a stream
\* that starts with the zlib header, a context in mid-stream only its
\* continuation; the text holds one JSON document per run of body bytes.
Inflate(ctx, buf) ==
    [ok |-> /\ buf # <<>>
            /\ (ctx = "fresh") = (buf[1] = ZlibHeader)
            /\ \A i \in 2..Len(buf) : buf[i] # ZlibHeader,
     docs |-> Cardinality({i \in 1..Len(buf) :
                  /\ buf[i] = BodyByte
                  /\ (i = 1 \/ buf[i - 1] # BodyByte)})]

\* The buffer never holds more than this many bytes in the model.
MaxBuf == 2 * (MaxBody + 5)

(* --------------------------- heartbeating ----------------------------- *)

\* A zombie test that looks for an unauthenticated session.
Zombied_Unauthenticated(sent, acks, sid, auth) ==
    sent > acks + 1 /\ sid # None /\ ~auth

\* A zombie test that lets one heartbeat go unacknowledged at a tick.
Zombied_OneMissedAck(sent, acks, sid, auth) ==
    sent > acks + 2 /\ sid # None /\ auth

\* A zombie test that looks for a missing session id.
Zombied_NoSession(sent, acks, sid, auth) ==
    sent > acks + 1 /\ sid = None /\ auth

\* send_heartbeat: the zombie test, made after the counter was incremented.
Zombied(sent, acks, sid, auth) ==
    sent > acks + 1 /\ sid # None /\ auth

\* A sequence update that keeps the highest number seen.
UpdateSequence_Highest(seq, s) == IF s # None /\ s > seq THEN s ELSE seq

\* A sequence update without the test for a null `s`.
UpdateSequence_AlsoNull(seq, s) == s

\* handle_data_event: the sequence update that precedes the opcode switch.
UpdateSequence(seq, s) == IF s # None THEN s ELSE seq

\* handle_data_event, INVALIDATE_SESSION: `should_resume = data or False`,
\* where `data` is the payload's JSON text (never empty at this point).
ShouldResume(env) == PyText

HeartbeatFrame(seq) == Eff("frame", "HEARTBEAT", None, seq)
IdentifyFrame == Eff("frame", "IDENTIFY", None, None)
ResumeFrame(sid, seq) == Eff("frame", "RESUME", sid, seq)

\* A zombie close that leaves clear_session_id at close()'s default.
ZombieClose_ClearsSession ==
    [code |-> ZombieCode, reconnect |-> TRUE, clear_session_id |-> TRUE]

\* A RECONNECT close that leaves clear_session_id at close()'s default.
ReconnectClose_ClearsSession ==
    [code |-> NormalCode, reconnect |-> TRUE, clear_session_id |-> TRUE]

\* A zombie close that leaves reconnect and clear_session_id at close()'s
\* defaults.
ZombieClose_Defaults ==
    [code |-> ZombieCode, reconnect |-> FALSE, clear_session_id |-> TRUE]

\* The three close() calls of the gateway: send_heartbeat's on a zombied
\* connection, the RECONNECT branch's, and open_websocket's on the way out.
ZombieClose == [code |-> ZombieCode, reconnect |-> TRUE, clear_session_id |-> FALSE]
ReconnectClose == [code |-> NormalCode, reconnect |-> TRUE, clear_session_id |-> FALSE]
ShutdownClose == [code |-> NormalCode, reconnect |-> FALSE, clear_session_id |-> TRUE]

\* A close() that zeroes the sequence when it clears the session.
ClosedSequence_Zero(c, seq) == IF c.clear_session_id THEN 0 ELSE seq

\* close(): what it leaves in session_id, in sequence and in a heartbeat
\* counter.
ClosedSession(c, sid) == IF c.clear_session_id THEN None ELSE sid
ClosedSequence(c, seq) == IF c.clear_session_id THEN None ELSE seq
ClosedCount(c, n) == IF c.clear_session_id THEN 0 ELSE n

CloseCall(c) ==
    Eff("close", IF c.reconnect THEN "soft" ELSE "kill", c.code,
        IF c.clear_session_id THEN PyTrue ELSE PyFalse)

\* A reset that forgets to clear the session id.
InvalidateReset_KeepsSession ==
    [sequence |-> 0, heartbeats |-> 0, heartbeat_acks |-> 0,
     session_id |-> session_id]

\* handle_data_event, INVALIDATE_SESSION without resume: what is stored
\* before send_identify is called.
InvalidateReset ==
    [sequence |-> 0, heartbeats |-> 0, heartbeat_acks |-> 0, session_id |-> None]

\* The entries of the heartbeater's log.
TickStarted == Eff("tick", "", None, None)
HeartbeatSent == Eff("sent", "HEARTBEAT", None, None)

Event(name, a, b) == Eff("event", name, a, b)

\* A HELLO branch with its test inverted.
HelloAuthFrame_Swapped(sid, seq) ==
    IF sid # None THEN IdentifyFrame ELSE ResumeFrame(sid, seq)

\* handle_data_event, HELLO: IDENTIFY without a session id, else RESUME.
HelloAuthFrame(sid, seq) ==
    IF sid = None THEN IdentifyFrame ELSE ResumeFrame(sid, seq)

\* The main task is suspended: other tasks run, the server acts.
MainSuspended == pc \in {"wait", "hello_hb", "hello_auth", "hb_reply", "inv_send"}

\* The heartbeater's log is an observation of its latest tick: it lasts
\* until the next step of the main task after the tick's send ended.
KeepHbLog == IF \E t \in Tasks : hb[t] = "sending" THEN hb_log ELSE <<>>

FreeTasks == {t \in Tasks : hb[t] = "none"}

\* The heartbeater tasks suspended in send_heartbeat's awaited send.
Sending == {t \in Tasks : hb[t] = "sending"}

(* ------------------------------- Init --------------------------------- *)

Init ==
    /\ session_id = None
    /\ sequence = 0
    /\ authenticated = FALSE
    /\ heartbeats = 0
    /\ heartbeat_acks = 0
    /\ stop_heartbeating = FALSE
    /\ databuffer = <<>>
    /\ decompressor = "fresh"
    /\ ws = "none"
    /\ cancelled = FALSE
    /\ pending_close = FALSE
    /\ wire = <<>>
    /\ srv_started = FALSE
    /\ acks_owed = 0
    /\ pc = "wait"
    /\ cur = NoEnv
    /\ pending = NoFrame
    /\ log = <<>>
    /\ hb = [t \in Tasks |-> "none"]
    /\ hb_log = <<>>
    /\ zombied = FALSE
    /\ reconnecting = FALSE
    /\ stale = {}
    /\ handshake = "none"
    /\ link_dead = FALSE
    /\ silent_ticks = 0
    /\ error = "none"
    /\ dropped = FALSE
    /\ fleet_pc = "idle"
    /\ shard_count = IntValue(0)
    /\ autoshard = FALSE
    /\ allow_resharding = FALSE
    /\ next_shard = 0
    /\ wake_at = 0
    /\ clock = 0
    /\ ready_state = NoEntries
    /\ gateways = NoEntries
    /\ shards = [s \in ShardIds |-> "none"]
    /\ cycle = 0
    /\ fired = 0
    /\ started_at = NoEntries
    /\ fleet_error = "none"
    /\ live = {}
    /\ queue = <<>>
    /\ producer = "none"
    /\ item = "none"
    /\ consumer = "new"
    /\ exit_event = FALSE
    /\ link = "new"
    /\ kill_at = "none"
    /\ reconnected = FALSE

(* ----------------------- transport lifecycle -------------------------- *)

\* events(): a Connecting event (the first connection, or lomond's
\* persist reconnecting after the previous one closed).
RecvConnecting ==
    /\ pc = "wait"
    /\ ~cancelled
    /\ ws \in {"none", "closed"}
    /\ ws' = "connecting"
    /\ databuffer' = Cleared(databuffer)
    /\ decompressor' = "fresh"
    /\ wire' = <<>>
    /\ srv_started' = FALSE
    /\ acks_owed' = 0
    /\ log' = <<Event("websocket_opened", None, None)>>
    /\ UNCHANGED <<sessionVars, statVars, stop_heartbeating, cancelled,
                   pending_close, cur, pending, hb>>
    /\ pc' = "handled"
    /\ hb_log' = KeepHbLog
    /\ zombied' = zombied
    /\ handshake' = "none"
    /\ link_dead' = FALSE
    /\ silent_ticks' = 0
    /\ dropped' = (databuffer # <<>>)
    /\ UNCHANGED <<reconnecting, stale, error, fleetVars, wrapVars>>

\* events(): a Connected event.
RecvConnected ==
    /\ pc = "wait"
    /\ ws = "connecting"
    /\ ws' = "open"
    /\ authenticated' = FALSE
    /\ log' = <<Event("websocket_connected", None, None)>>
    /\ UNCHANGED <<session_id, sequence, statVars, stop_heartbeating, zlibVars,
                   cancelled, pending_close, serverVars, acks_owed, cur,
                   pending, hb>>
    /\ pc' = "handled"
    /\ hb_log' = KeepHbLog
    /\ zombied' = zombied
    /\ UNCHANGED auxVars

\* The server closes the connection with a close code: lomond will yield
\* a Closing event carrying it. 4004 and 4011 are the codes run_shard
\* treats as fatal.
InvalidTokenCode == 4004
ReshardingCode == 4011
CloseCodes == {NormalCode, InvalidTokenCode, ReshardingCode}

EnvServerClose ==
    /\ MainSuspended
    /\ ws = "open"
    /\ ws' = "closing"
    /\ pending_close' = TRUE
    /\ UNCHANGED <<sessionVars, statVars, stop_heartbeating, zlibVars,
                   cancelled, serverVars, acks_owed, pc, cur, pending, hb>>
    /\ log' = log
    /\ hb_log' = KeepHbLog
    /\ zombied' = zombied
    /\ UNCHANGED auxVars

\* A close that the client started completes (lomond yields Closed and
\* Disconnected, which events() does not look at).
EnvClosed ==
    /\ MainSuspended
    /\ ws = "closing"
    /\ ~pending_close
    /\ ws' = "closed"
    /\ wire' = <<>>
    /\ UNCHANGED <<sessionVars, statVars, stop_heartbeating, zlibVars,
                   cancelled, pending_close, srv_started, acks_owed, pc, cur,
                   pending, hb>>
    /\ log' = log
    /\ hb_log' = KeepHbLog
    /\ zombied' = zombied
    /\ UNCHANGED auxVars

\* run_shard: the close codes after which the caller raises.
FatalCode(code) == code \in {InvalidTokenCode, ReshardingCode}

\* A run_shard that asks for resharding on an invalid token as well.
ShardError_AlwaysResharding(code) ==
    IF code \in {InvalidTokenCode, ReshardingCode} THEN "ReshardingNeeded"
    ELSE "none"

\* run_shard: the exception raised for the close code of a websocket_closed
\* event.
ShardError(code) ==
    IF code = InvalidTokenCode THEN "InvalidTokenException"
    ELSE IF code = ReshardingCode THEN "ReshardingNeeded"
    ELSE "none"

\* events(): a Closing event; _stop_heartbeat_events, then the event is
\* yielded to run_shard.
RecvClosing(code) ==
    /\ pc = "wait"
    /\ pending_close
    /\ stop_heartbeating' = TRUE
    /\ hb' = SetEvent(hb)
    /\ heartbeats' = 0
    /\ heartbeat_acks' = 0
    /\ log' = <<Event("websocket_closed", code, None)>>
    /\ pc' = IF FatalCode(code) THEN "raised" ELSE "handled"
    /\ ws' = "closed"
    /\ pending_close' = FALSE
    /\ wire' = <<>>
    /\ UNCHANGED <<sessionVars, zlibVars, cancelled, srv_started, acks_owed,
                   cur, pending>>
    /\ hb_log' = KeepHbLog
    /\ zombied' = zombied
    /\ stale' = stale \cup Sending
    /\ error' = ShardError(code)
    /\ UNCHANGED restVars
    /\ UNCHANGED <<reconnecting, handshake, link_dead, silent_ticks>>

(* ------------------------- handle_data_event -------------------------- *)

Min(a, b) == IF a < b THEN a ELSE b

\* What the server can send now: it acks only heartbeats it received. The
\* caps keep the counters within MaxBeats.
Feasible(env) ==
    /\ env.op = HEARTBEAT_ACK =>
          acks_owed > 0 /\ heartbeat_acks < MaxBeats /\ ~link_dead
    /\ env.op = HEARTBEAT => heartbeats < MaxBeats

\* The start of a handler's log: the envelope that was decoded, and the
\* stored sequence at the opcode switch (a) and before the envelope (b).
Decoded(env, seq) ==
    <<Eff("payload", env.t, env.op, env.s), Eff("switch", "", seq, sequence)>>

\* A DISPATCH branch that counts nothing.
Counted_None(t) == <<>>

\* handle_data_event, DISPATCH: self._dispatches_handled[event] += 1
Counted(t) == <<Eff("count", t, 1, None)>>

\* A HELLO branch whose _stop_heartbeat_events leaves the counters alone.
HandleHello_KeepsCounts(env, seq) ==
    /\ env.op = HELLO
    /\ heartbeat_acks' = heartbeat_acks
    /\ IF Zombied(heartbeats + 1, heartbeat_acks, session_id, authenticated)
       THEN /\ ws' = WsAfterClose(ws)
            /\ cancelled' = CancelledAfterClose(cancelled, ~ZombieClose.reconnect)
            /\ session_id' = ClosedSession(ZombieClose, session_id)
            /\ sequence' = ClosedSequence(ZombieClose, seq)
            /\ heartbeats' = ClosedCount(ZombieClose, heartbeats + 1)
            /\ pending' = NoFrame
            /\ log' = Append(Decoded(env, seq), CloseCall(ZombieClose))
            /\ zombied' = TRUE
       ELSE /\ sequence' = seq
            /\ heartbeats' = heartbeats + 1
            /\ pending' = HeartbeatFrame(seq)
            /\ log' = Decoded(env, seq)
            /\ UNCHANGED <<ws, cancelled, session_id, zombied>>
    /\ stop_heartbeating' = TRUE
    /\ hb' = SetEvent(hb)
    /\ pc' = "hello_hb"
    /\ cur' = env
    /\ UNCHANGED <<authenticated, pending_close, acks_owed>>
    /\ hb_log' = KeepHbLog
    /\ stale' = IF Zombied(heartbeats + 1, heartbeat_acks, session_id, authenticated)
                THEN stale \cup Sending ELSE stale
    /\ UNCHANGED <<reconnecting, handshake, link_dead, silent_ticks, error, restVars>>

\* handle_data_event, HELLO, up to the awaited send of the immediate
\* heartbeat: _stop_heartbeat_events, then send_heartbeat.
HandleHello(env, seq) ==
    /\ env.op = HELLO
    /\ heartbeat_acks' = 0
    /\ IF Zombied(1, 0, session_id, authenticated)
       THEN /\ ws' = WsAfterClose(ws)
            /\ cancelled' = CancelledAfterClose(cancelled, ~ZombieClose.reconnect)
            /\ session_id' = ClosedSession(ZombieClose, session_id)
            /\ sequence' = ClosedSequence(ZombieClose, seq)
            /\ heartbeats' = ClosedCount(ZombieClose, 1)
            /\ pending' = NoFrame
            /\ log' = Append(Decoded(env, seq), CloseCall(ZombieClose))
            /\ zombied' = TRUE
       ELSE /\ sequence' = seq
            /\ heartbeats' = 1
            /\ pending' = HeartbeatFrame(seq)
            /\ log' = Decoded(env, seq)
            /\ UNCHANGED <<ws, cancelled, session_id, zombied>>
    /\ stop_heartbeating' = TRUE
    /\ hb' = SetEvent(hb)
    /\ pc' = "hello_hb"
    /\ cur' = env
    /\ UNCHANGED <<authenticated, pending_close, acks_owed>>
    /\ hb_log' = KeepHbLog
    /\ stale' = IF Zombied(1, 0, session_id, authenticated)
                THEN stale \cup Sending ELSE stale
    /\ UNCHANGED <<reconnecting, handshake, link_dead, silent_ticks, error, restVars>>

\* handle_data_event, HEARTBEAT: send_heartbeat up to its awaited send, or
\* its zombie close followed by the yield.
HandleHeartbeat(env, seq) ==
    /\ env.op = HEARTBEAT
    /\ IF Zombied(heartbeats + 1, heartbeat_acks, session_id, authenticated)
       THEN /\ ws' = WsAfterClose(ws)
            /\ cancelled' = CancelledAfterClose(cancelled, ~ZombieClose.reconnect)
            /\ stop_heartbeating' = TRUE
            /\ hb' = SetEvent(hb)
            /\ session_id' = ClosedSession(ZombieClose, session_id)
            /\ sequence' = ClosedSequence(ZombieClose, seq)
            /\ heartbeats' = ClosedCount(ZombieClose, heartbeats + 1)
            /\ heartbeat_acks' = ClosedCount(ZombieClose, heartbeat_acks)
            /\ pending' = NoFrame
            /\ log' = Decoded(env, seq) \o
                        <<CloseCall(ZombieClose),
                          Event("gateway_heartbeat_received", None, None)>>
            /\ pc' = "handled"
            /\ cur' = NoEnv
            /\ zombied' = TRUE
       ELSE /\ sequence' = seq
            /\ heartbeats' = heartbeats + 1
            /\ pending' = HeartbeatFrame(seq)
            /\ log' = Decoded(env, seq)
            /\ pc' = "hb_reply"
            /\ cur' = env
            /\ UNCHANGED <<ws, cancelled, stop_heartbeating, hb, session_id,
                           heartbeat_acks, zombied>>
    /\ UNCHANGED <<authenticated, pending_close, acks_owed>>
    /\ hb_log' = KeepHbLog
    /\ stale' = IF Zombied(heartbeats + 1, heartbeat_acks, session_id,
                           authenticated)
                THEN stale \cup Sending ELSE stale
    /\ UNCHANGED <<reconnecting, handshake, link_dead, silent_ticks, error, restVars>>

\* handle_data_event, HEARTBEAT_ACK.
HandleAck(env, seq) ==
    /\ env.op = HEARTBEAT_ACK
    /\ sequence' = seq
    /\ heartbeat_acks' = heartbeat_acks + 1
    /\ acks_owed' = acks_owed - 1
    /\ log' = Append(Decoded(env, seq), Event("gateway_heartbeat_ack", None, None))
    /\ UNCHANGED <<session_id, authenticated, heartbeats, stop_heartbeating,
                   ws, cancelled, pending_close, cur, pending, hb>>
    /\ pc' = "handled"
    /\ hb_log' = KeepHbLog
    /\ zombied' = zombied
    /\ UNCHANGED auxVars

\* handle_data_event, INVALIDATE_SESSION, up to the awaited send.
HandleInvalidate(env, seq) ==
    /\ env.op = INVALIDATE_SESSION
    /\ IF ShouldResume(env) = PyTrue
       THEN /\ pending' = ResumeFrame(session_id, seq)
            /\ sequence' = seq
            /\ UNCHANGED <<session_id, statVars>>
       ELSE /\ sequence' = InvalidateReset.sequence
            /\ heartbeats' = InvalidateReset.heartbeats
            /\ heartbeat_acks' = InvalidateReset.heartbeat_acks
            /\ session_id' = InvalidateReset.session_id
            /\ pending' = IdentifyFrame
    /\ log' = Decoded(env, seq)
    /\ pc' = "inv_send"
    /\ cur' = env
    /\ UNCHANGED <<authenticated, stop_heartbeating, ws, cancelled,
                   pending_close, acks_owed, hb>>
    /\ hb_log' = KeepHbLog
    /\ zombied' = FALSE
    /\ reconnecting' = FALSE
    /\ silent_ticks' = 0
    /\ UNCHANGED <<stale, handshake, link_dead, error, restVars>>

\* handle_data_event, DISPATCH.
HandleDispatch(env, seq) ==
    /\ env.op = DISPATCH
    /\ sequence' = seq
    /\ IF env.t = ""
       THEN /\ log' = Decoded(env, seq)
            /\ UNCHANGED <<session_id, authenticated>>
       ELSE /\ authenticated' = IF env.t = "READY" THEN TRUE ELSE authenticated
            /\ session_id' = IF env.t = "READY" THEN env.d ELSE session_id
            /\ log' = Decoded(env, seq) \o Counted(env.t)
                         \o <<Eff("dispatch", env.t, env.d, None)>>
    /\ UNCHANGED <<statVars, stop_heartbeating, ws, cancelled, pending_close,
                   acks_owed, cur, pending, hb>>
    /\ pc' = "handled"
    /\ hb_log' = KeepHbLog
    /\ zombied' = zombied
    /\ UNCHANGED auxVars

\* handle_data_event, RECONNECT: close(1000, reconnect=True,
\* clear_session_id=False).
HandleReconnect(env, seq) ==
    /\ env.op = RECONNECT
    /\ ws' = WsAfterClose(ws)
    /\ cancelled' = CancelledAfterClose(cancelled, ~ReconnectClose.reconnect)
    /\ stop_heartbeating' = TRUE
    /\ hb' = SetEvent(hb)
    /\ session_id' = ClosedSession(ReconnectClose, session_id)
    /\ sequence' = ClosedSequence(ReconnectClose, seq)
    /\ heartbeats' = ClosedCount(ReconnectClose, heartbeats)
    /\ heartbeat_acks' = ClosedCount(ReconnectClose, heartbeat_acks)
    /\ log' = Append(Decoded(env, seq), CloseCall(ReconnectClose))
    /\ UNCHANGED <<authenticated, pending_close, acks_owed, cur, pending>>
    /\ pc' = "handled"
    /\ hb_log' = KeepHbLog
    /\ zombied' = zombied
    /\ reconnecting' = (session_id # None)
    /\ stale' = stale \cup Sending
    /\ UNCHANGED <<handshake, link_dead, silent_ticks, error, restVars>>

HandledOps == {HELLO, HEARTBEAT, HEARTBEAT_ACK, INVALIDATE_SESSION, DISPATCH, RECONNECT}

\* A last branch that yields an event for the opcode.
HandleOther_Yields(env, seq) ==
    /\ env.op \notin HandledOps
    /\ sequence' = seq
    /\ log' = Append(Decoded(env, seq), Event("gateway_unhandled", env.op, None))
    /\ UNCHANGED <<session_id, authenticated, statVars, stop_heartbeating, ws,
                   cancelled, pending_close, acks_owed, cur, pending, hb>>
    /\ pc' = "handled"
    /\ hb_log' = KeepHbLog
    /\ zombied' = zombied
    /\ UNCHANGED auxVars

\* handle_data_event: any other opcode is logged and ignored.
HandleOther(env, seq) ==
    /\ env.op \notin HandledOps
    /\ sequence' = seq
    /\ log' = Decoded(env, seq)
    /\ UNCHANGED <<session_id, authenticated, statVars, stop_heartbeating, ws,
                   cancelled, pending_close, acks_owed, cur, pending, hb>>
    /\ pc' = "handled"
    /\ hb_log' = KeepHbLog
    /\ zombied' = zombied
    /\ UNCHANGED auxVars

\* handle_data_event from json.loads on: the sequence update, then the
\* opcode switch, up to the handler's first suspension or its end.
HandlePayload(env) ==
    LET seq == UpdateSequence(sequence, env.s)
    IN  \/ HandleHello(env, seq)
        \/ HandleHeartbeat(env, seq)
        \/ HandleAck(env, seq)
        \/ HandleInvalidate(env, seq)
        \/ HandleDispatch(env, seq)
        \/ HandleReconnect(env, seq)
        \/ HandleOther(env, seq)

\* An exception leaves handle_data_event and events().
Raise ==
    /\ pc' = "raised"
    /\ log' = <<>>
    /\ UNCHANGED <<sessionVars, statVars, stop_heartbeating, ws, cancelled,
                   pending_close, acks_owed, cur, pending, hb>>
    /\ hb_log' = KeepHbLog
    /\ zombied' = zombied
    /\ error' = "Exception"
    /\ UNCHANGED restVars
    /\ UNCHANGED <<reconnecting, stale, handshake, link_dead, silent_ticks>>

\* A handler that returns without an effect.
ReturnQuietly ==
    /\ log' = <<>>
    /\ UNCHANGED <<sessionVars, statVars, stop_heartbeating, ws, cancelled,
                   pending_close, acks_owed, pc, cur, pending, hb>>
    /\ hb_log' = KeepHbLog
    /\ zombied' = zombied
    /\ UNCHANGED auxVars

\* The test handle_data_event makes after extending the buffer by a
\* fragment: is the payload complete?
PayloadComplete(fragment, buffer) == EndsWith(fragment, ZLIB_FLUSH_SUFFIX)

\* handle_data_event for a Binary event with the bytes `fragment`; envs are
\* the envelopes the text may hold.
HandleBinary(fragment, envs) ==
    LET buffer == databuffer \o fragment
        r == Inflate(decompressor, buffer)
    IN  /\ Len(buffer) <= MaxBuf
        /\ IF ~PayloadComplete(fragment, buffer)
           THEN /\ databuffer' = buffer
                /\ decompressor' = decompressor
                /\ ReturnQuietly
           ELSE IF ~r.ok
           THEN \* zlib.error
                /\ databuffer' = buffer
                /\ decompressor' = decompressor
                /\ Raise
           ELSE /\ databuffer' = <<>>
                /\ decompressor' = "streaming"
                /\ IF r.docs = 0
                   THEN ReturnQuietly          \* an empty payload
                   ELSE IF r.docs > 1
                   THEN Raise                  \* json.loads: extra data
                   ELSE \E env \in envs : Feasible(env) /\ HandlePayload(env)

\* events() / handle_data_event: a Binary event carrying the next k bytes
\* of the server's stream (the server starts a message of n body bytes when
\* none is under way); envs are the envelopes the server may have sent.
RecvBinary(k, n, envs) ==
    LET w0 == IF wire = <<>> THEN Message(n, ~srv_started) ELSE wire
        fragment == SubSeq(w0, 1, k)
    IN  /\ pc = "wait"
        /\ ws \in {"open", "closing"}
        /\ wire = <<>> \/ n = 0
        /\ k \in 1..Len(w0)
        /\ wire' = SubSeq(w0, k + 1, Len(w0))
        /\ srv_started' = TRUE
        /\ HandleBinary(fragment, envs)

\* events() / handle_data_event: a Binary event whose bytes end with the
\* flush suffix and are not a continuation of the stream (a message with
\* the zlib header in mid-stream, or without it at the start).
RecvCorrupt(n) ==
    /\ pc = "wait"
    /\ ws \in {"open", "closing"}
    /\ wire = <<>>
    /\ UNCHANGED serverVars
    /\ HandleBinary(Message(n, srv_started), {})

\* events() / handle_data_event: a Text event.
RecvText(envs) ==
    /\ pc = "wait"
    /\ ws \in {"open", "closing"}
    /\ wire = <<>>
    /\ \E env \in envs : Feasible(env) /\ HandlePayload(env)
    /\ UNCHANGED <<zlibVars, serverVars>>

(* ---------------------- the handlers' awaited sends ------------------- *)

\* handle_data_event, HELLO: the immediate heartbeat's send returns (or
\* raises); _start_heatbeat_events; the IDENTIFY or RESUME is handed to send.
HelloHbDone ==
    LET out == IF pending = NoFrame THEN "noop" ELSE SendOutcome(ws)
    IN  /\ pc = "hello_hb"
        /\ \/ /\ out \in {"ok", "noop"}
              /\ FreeTasks # {}
              /\ log' = IF out = "ok" THEN Append(log, pending) ELSE log
              /\ acks_owed' = IF out = "ok" THEN Min(acks_owed + 1, MaxOwed)
                              ELSE acks_owed
              /\ stop_heartbeating' = FALSE
              /\ hb' = [hb EXCEPT ![CHOOSE t \in FreeTasks : TRUE] = "waiting"]
              /\ pending' = HelloAuthFrame(session_id, sequence)
              /\ pc' = "hello_auth"
              /\ cur' = cur
           \/ /\ out \notin {"ok", "noop"}
              /\ pc' = "raised"
              /\ pending' = NoFrame
              /\ cur' = NoEnv
              /\ UNCHANGED <<acks_owed, stop_heartbeating, hb>>
              /\ log' = log
        /\ UNCHANGED <<sessionVars, statVars, zlibVars, ws, cancelled,
                       pending_close, serverVars>>
        /\ hb_log' = KeepHbLog
        /\ zombied' = zombied
        /\ error' = IF out \in {"ok", "noop"} THEN error ELSE out
        /\ UNCHANGED restVars
        /\ UNCHANGED <<reconnecting, stale, handshake, link_dead, silent_ticks>>

\* The exceptions the HELLO branch catches around send_identify/send_resume.
HelloSwallows(out) == out \in {"WebSocketClosing", "WebSocketClosed"}

\* handle_data_event, HELLO: the IDENTIFY/RESUME send returns or raises;
\* then gateway_hello is yielded.
HelloAuthDone ==
    LET out == SendOutcome(ws)
    IN  /\ pc = "hello_auth"
        /\ IF out \in {"ok", "noop"} \/ HelloSwallows(out)
           THEN /\ log' = Append(IF out = "ok" THEN Append(log, pending) ELSE log,
                                 Event("gateway_hello", None, None))
                /\ pc' = "handled"
                /\ cur' = cur
           ELSE /\ log' = log
                /\ pc' = "raised"
                /\ cur' = NoEnv
        /\ pending' = NoFrame
        /\ UNCHANGED <<sessionVars, statVars, stop_heartbeating, zlibVars, ws,
                       cancelled, pending_close, serverVars, acks_owed, hb>>
        /\ hb_log' = KeepHbLog
        /\ zombied' = FALSE
        /\ reconnecting' = FALSE
        /\ handshake' = IF out = "ok" THEN pending.name ELSE handshake
        /\ error' = IF out \in {"ok", "noop"} \/ HelloSwallows(out) THEN error
                    ELSE out
        /\ UNCHANGED restVars
        /\ UNCHANGED <<stale, link_dead, silent_ticks>>

\* The awaited send of a handler that catches nothing returns or raises;
\* on return the handler's event is yielded.
SendDone(at, event) ==
    LET out == SendOutcome(ws)
    IN  /\ pc = at
        /\ IF out \in {"ok", "noop"}
           THEN /\ log' = Append(IF out = "ok" THEN Append(log, pending) ELSE log,
                                 event)
                /\ pc' = "handled"
                /\ cur' = cur
           ELSE /\ log' = log
                /\ pc' = "raised"
                /\ cur' = NoEnv
        /\ acks_owed' = IF out = "ok" /\ pending.name = "HEARTBEAT"
                        THEN Min(acks_owed + 1, MaxOwed) ELSE acks_owed
        /\ pending' = NoFrame
        /\ UNCHANGED <<sessionVars, statVars, stop_heartbeating, zlibVars, ws,
                       cancelled, pending_close, serverVars, hb>>
        /\ hb_log' = KeepHbLog
        /\ zombied' = zombied
        /\ handshake' = IF out = "ok" /\ pending.name \in {"IDENTIFY", "RESUME"}
                        THEN pending.name ELSE handshake
        /\ error' = IF out \in {"ok", "noop"} THEN error ELSE out
        /\ UNCHANGED restVars
        /\ UNCHANGED <<reconnecting, stale, link_dead, silent_ticks>>

\* handle_data_event, HEARTBEAT: the reply's send returns or raises.
HbReplyDone == SendDone("hb_reply", Event("gateway_heartbeat_received", None, None))

\* handle_data_event, INVALIDATE_SESSION: the send returns or raises.
InvSendDone ==
    SendDone("inv_send", Event("gateway_invalidate_session", ShouldResume(cur), None))

(* ------------------------- the heartbeater ---------------------------- *)

\* heartbeater: the wait on the stop event times out and send_heartbeat
\* runs up to its awaited send, or to the end of its zombie close.
HbTick(t) ==
    /\ MainSuspended
    /\ hb[t] = "waiting"
    /\ ~stop_heartbeating
    /\ heartbeats < MaxBeats
    /\ IF Zombied(heartbeats + 1, heartbeat_acks, session_id, authenticated)
       THEN /\ ws' = WsAfterClose(ws)
            /\ cancelled' = CancelledAfterClose(cancelled, ~ZombieClose.reconnect)
            /\ stop_heartbeating' = TRUE
            /\ session_id' = ClosedSession(ZombieClose, session_id)
            /\ sequence' = ClosedSequence(ZombieClose, sequence)
            /\ heartbeats' = ClosedCount(ZombieClose, heartbeats + 1)
            /\ heartbeat_acks' = ClosedCount(ZombieClose, heartbeat_acks)
            /\ hb' = [SetEvent(hb) EXCEPT ![t] = "none"]
            /\ hb_log' = <<TickStarted, CloseCall(ZombieClose)>>
            /\ zombied' = TRUE
       ELSE /\ heartbeats' = heartbeats + 1
            /\ hb' = [hb EXCEPT ![t] = "sending"]
            /\ hb_log' = <<TickStarted>>
            /\ UNCHANGED <<ws, cancelled, stop_heartbeating, session_id,
                           sequence, heartbeat_acks, zombied>>
    /\ UNCHANGED <<authenticated, zlibVars, pending_close, serverVars,
                   acks_owed, pc, cur, pending>>
    /\ log' = log
    /\ stale' = IF Zombied(heartbeats + 1, heartbeat_acks, session_id,
                           authenticated)
                THEN (stale \cup Sending) \ {t} ELSE stale
    /\ silent_ticks' = IF link_dead /\ authenticated /\ session_id # None
                       THEN Min(silent_ticks + 1, MaxSilent)
                       ELSE silent_ticks
    /\ UNCHANGED <<reconnecting, handshake, link_dead, error, restVars>>

\* heartbeater: the exceptions of send_heartbeat that end the task.
HeartbeaterCatches(out) ==
    out \in {"WebSocketClosing", "WebSocketClosed", "WebSocketUnavailable"}

\* heartbeater: the awaited send raises (the task returns) or returns; the
\* task then waits again, or leaves its loop if the stop event is set.
HbSendDone(t) ==
    LET out == SendOutcome(ws)
    IN  /\ MainSuspended
        /\ hb[t] = "sending"
        /\ hb' = [hb EXCEPT ![t] =
                    IF HeartbeaterCatches(out) \/ stop_heartbeating THEN "none"
                    ELSE "waiting"]
        /\ hb_log' = IF out = "ok" THEN Append(hb_log, HeartbeatSent) ELSE hb_log
        /\ zombied' = zombied
        /\ stale' = IF hb'[t] = "none" THEN stale \ {t} ELSE stale
        /\ UNCHANGED <<reconnecting, handshake, link_dead, silent_ticks, error, restVars>>
        /\ acks_owed' = IF out = "ok" THEN Min(acks_owed + 1, MaxOwed)
                        ELSE acks_owed
        /\ UNCHANGED <<sessionVars, statVars, stop_heartbeating, zlibVars, ws,
                       cancelled, pending_close, serverVars, pc, cur, pending>>
        /\ log' = log

(* --------------------------- the caller ------------------------------ *)

\* events() has yielded a gateway_dispatch_received event to run_shard.
DispatchYielded ==
    \E i \in 1..Len(log) : log[i].kind = "dispatch"

\* run_shard: where its loop is after it took a gateway_dispatch_received
\* event and called the State handler of the event: it awaits the handler.
AfterDispatch_NextEvent == "wait"

AfterDispatch == "state_handler"

\* run_shard: the handler of the dispatch's event is looked up on
\* self.state and called with the dispatch's data.
CallStateHandler ==
    /\ pc = "handled"
    /\ DispatchYielded
    /\ pc' = AfterDispatch
    /\ log' = IF pc' = "wait" THEN <<>> ELSE log
    /\ cur' = IF pc' = "wait" THEN NoEnv ELSE cur
    /\ UNCHANGED <<sessionVars, statVars, stop_heartbeating, zlibVars, ws,
                   cancelled, pending_close, serverVars, acks_owed, pending,
                   hb, hb_log, zombied, auxVars>>

\* run_shard: the State handler has ended and the events it made were
\* fired; the loop asks events() for the next transport event.
StateHandlerDone ==
    /\ pc = "state_handler"
    /\ pc' = "wait"
    /\ log' = <<>>
    /\ cur' = NoEnv
    /\ UNCHANGED <<sessionVars, statVars, stop_heartbeating, zlibVars, ws,
                   cancelled, pending_close, serverVars, acks_owed, pending,
                   hb, hb_log, zombied, auxVars>>

\* run_shard: the caller has dealt with what the handler yielded and asks
\* events() for the next transport event.
AwaitNext ==
    /\ pc = "handled"
    /\ ~DispatchYielded
    /\ pc' = "wait"
    /\ log' = <<>>
    /\ cur' = NoEnv
    /\ UNCHANGED <<sessionVars, statVars, stop_heartbeating, zlibVars, ws,
                   cancelled, pending_close, serverVars, acks_owed, pending,
                   hb, hb_log, zombied, auxVars>>

(* ----------------------------- shutdown ------------------------------- *)

\* open_websocket, finally: the exception that left events() unwinds the
\* context manager: close(1000, reconnect=False), then the task group is
\* cancelled.
Shutdown ==
    /\ pc = "raised"
    /\ ws' = WsAfterClose(ws)
    /\ cancelled' = CancelledAfterClose(cancelled, ~ShutdownClose.reconnect)
    /\ stop_heartbeating' = TRUE
    /\ session_id' = ClosedSession(ShutdownClose, session_id)
    /\ sequence' = ClosedSequence(ShutdownClose, sequence)
    /\ heartbeats' = ClosedCount(ShutdownClose, heartbeats)
    /\ heartbeat_acks' = ClosedCount(ShutdownClose, heartbeat_acks)
    /\ hb' = [t \in Tasks |-> "none"]
    /\ pc' = "done"
    /\ cur' = NoEnv
    /\ pending' = NoFrame
    /\ log' = <<CloseCall(ShutdownClose)>>
    /\ UNCHANGED <<authenticated, zlibVars, pending_close, serverVars,
                   acks_owed>>
    /\ hb_log' = KeepHbLog
    /\ zombied' = FALSE
    /\ reconnecting' = FALSE
    /\ stale' = {}
    /\ UNCHANGED <<handshake, link_dead, silent_ticks, error, restVars>>

\* run_bot_in_sharded_mode, seen from the shard that raised
\* ReshardingNeeded, when resharding is allowed: shard_count becomes the
\* pair get_gateway_url returns and manage_all_shards(shard_count) raises
\* TypeError at range(shard_count); no shard is started again.
Reshard ==
    /\ pc = "done"
    /\ error = "ReshardingNeeded"
    /\ error' = "TypeError"
    /\ UNCHANGED <<sessionVars, statVars, stop_heartbeating, zlibVars, ws,
                   cancelled, pending_close, serverVars, acks_owed, pc, cur,
                   pending, log, hb, hb_log, zombied, reconnecting, stale,
                   handshake, link_dead, silent_ticks, restVars>>

(* ------------------------------- Next --------------------------------- *)

\* The gateway with every payload arriving in one Binary event.
Next ==
    \/ RecvConnecting
    \/ RecvConnected
    \/ EnvServerClose
    \/ EnvClosed
    \/ \E code \in CloseCodes : RecvClosing(code)
    \/ \E n \in 0..MaxBody :
          RecvBinary(Len(Message(n, ~srv_started)), n, Envelopes)
    \/ HelloHbDone
    \/ HelloAuthDone
    \/ HbReplyDone
    \/ InvSendDone
    \/ \E t \in Tasks : HbTick(t)
    \/ \E t \in Tasks : HbSendDone(t)
    \/ AwaitNext
    \/ CallStateHandler
    \/ StateHandlerDone
    \/ Shutdown
    \/ Reshard

Spec == Init /\ [][Next]_vars

\* The envelopes of the stream specification: dispatches and requests to
\* reconnect.
StreamEnvelopes == {env \in Envelopes : env.op \in {DISPATCH, RECONNECT}}

\* The gateway with payloads arriving in fragments of any length, or as
\* Text events, from a server that sends dispatches and requests to reconnect.
NextStream ==
    \/ RecvConnecting
    \/ RecvConnected
    \/ EnvServerClose
    \/ EnvClosed
    \/ \E code \in CloseCodes : RecvClosing(code)
    \/ \E k \in 1..(MaxBody + 5), n \in 0..MaxBody :
          RecvBinary(k, n, StreamEnvelopes)
    \/ RecvText(StreamEnvelopes)
    \/ AwaitNext
    \/ CallStateHandler
    \/ StateHandlerDone
    \/ Shutdown
    \/ Reshard

SpecStream == Init /\ [][NextStream]_vars

\* The same gateway on a connection that may also deliver corrupt data.
NextCorrupt ==
    \/ Next
    \/ \E n \in 0..MaxBody : RecvCorrupt(n)

SpecCorrupt == Init /\ [][NextCorrupt]_vars

\* The server's HEARTBEAT_ACKs stop arriving on the open connection.
AckLoss ==
    /\ ws = "open"
    /\ ~link_dead
    /\ link_dead' = TRUE
    /\ silent_ticks' = 0
    /\ UNCHANGED <<sessionVars, statVars, stop_heartbeating, zlibVars, ws,
                   cancelled, pending_close, serverVars, acks_owed, pc, cur,
                   pending, log, hb, hb_log, zombied, reconnecting, stale,
                   handshake, error, restVars>>

\* The envelopes of the liveness specification: the handshake, the acks,
\* and an INVALIDATE_SESSION, none with a sequence number.
LiveEnvelopes ==
    {env \in Envelopes :
        /\ env.s = None
        /\ \/ env.op \in {HELLO, HEARTBEAT_ACK}
           \/ env.op = INVALIDATE_SESSION /\ env.d = PyFalse
           \/ env.op = DISPATCH /\ env.t = "READY"}

\* The gateway facing a server that never closes the connection and whose
\* acks may stop arriving.
NextLive ==
    \/ RecvConnecting
    \/ RecvConnected
    \/ EnvClosed
    \/ AckLoss
    \/ RecvBinary(Len(Message(1, ~srv_started)), 1, LiveEnvelopes)
    \/ HelloHbDone
    \/ HelloAuthDone
    \/ InvSendDone
    \/ \E t \in Tasks : HbTick(t)
    \/ \E t \in Tasks : HbSendDone(t)
    \/ AwaitNext
    \/ CallStateHandler
    \/ StateHandlerDone
    \/ Shutdown

\* The event loop runs every task that is ready whenever the running task
\* suspends: a heartbeater whose timer ran out and a send that ended are
\* resumed, and the caller goes on after each event.
SpecLive ==
    /\ Init
    /\ [][NextLive]_vars
    /\ SF_vars(\E t \in Tasks : HbTick(t))
    /\ SF_vars(\E t \in Tasks : HbSendDone(t))
    /\ WF_vars(HelloHbDone)
    /\ WF_vars(HelloAuthDone)
    /\ WF_vars(InvSendDone)
    /\ WF_vars(AwaitNext)
    /\ WF_vars(CallStateHandler)
    /\ WF_vars(StateHandlerDone)
    /\ WF_vars(Shutdown)


(* --------------------------- the shard fleet -------------------------- *)

\* The fleet is modelled with each shard reduced to what it reports to the
\* client: READY dispatches and the exceptions that leave run_shard. The
\* steps of the managing task between two awaits take no time; time passes
\* while it sleeps or waits for its task group.

gatewayVars == <<sessionVars, statVars, stop_heartbeating, zlibVars, ws,
                 cancelled, pending_close, serverVars, acks_owed, pc, cur,
                 pending, log, hb, hb_log, zombied, reconnecting, stale,
                 handshake, link_dead, silent_ticks, error, dropped>>

\* run_async: allow_resharding as it is passed to run_bot_in_sharded_mode.
AllowResharding(as, ar) == as \/ ar

\* manage_all_shards: `if shard_count >= 2` before the sleep.
SleepNeeded_Always(n) == TRUE

SleepNeeded(n) == n >= 2

\* all(self._ready_state.values())
AllReady(rs) == \A s \in DOMAIN rs : rs[s]

\* dict assignment d[k] = v
SetItem(d, k, v) == [x \in DOMAIN d \cup {k} |-> IF x = k THEN v ELSE d[x]]

\* run_async: the shard count is the argument, or with autoshard the one
\* unpacked from get_gateway_url's pair; then run_bot_in_sharded_mode is
\* entered. A caller may call run_async again after it raised.
RunAsync(as, ar, n) ==
    /\ fleet_pc \in {"idle", "raised"}
    /\ cycle < MaxCycles
    /\ autoshard' = as
    /\ allow_resharding' = ar
    /\ shard_count' = IntValue(n)
    /\ fleet_error' = "none"
    /\ fleet_pc' = "call"
    /\ UNCHANGED <<next_shard, wake_at, clock, ready_state, gateways, shards,
                   cycle, fired, started_at, live>>
    /\ UNCHANGED <<gatewayVars, wrapVars>>

\* manage_all_shards up to its first spawn: range(shard_count) raises
\* TypeError when shard_count is not an int; else every id of the range
\* gets a False entry in _ready_state (other entries stay as they are).
ManageAllShards ==
    /\ fleet_pc = "call"
    /\ IF shard_count.type = "int"
       THEN /\ ready_state' =
                  [s \in DOMAIN ready_state \cup 0..(shard_count.n - 1) |->
                      IF s < shard_count.n THEN FALSE ELSE ready_state[s]]
            /\ next_shard' = 0
            /\ fleet_pc' = "spawn"
            /\ cycle' = cycle + 1
            /\ clock' = 0
            /\ fired' = 0
            /\ started_at' = NoEntries
            /\ shards' = [s \in ShardIds |-> "none"]
            /\ UNCHANGED fleet_error
       ELSE /\ fleet_error' = "TypeError"
            /\ fleet_pc' = "raised"
            /\ UNCHANGED <<ready_state, next_shard, cycle, clock, fired,
                           started_at, shards>>
    /\ UNCHANGED <<shard_count, autoshard, allow_resharding, wake_at,
                   gateways, live>>
    /\ UNCHANGED <<gatewayVars, wrapVars>>

\* manage_all_shards: one turn of the loop up to its await: run_shard is
\* spawned for `shard` and registers its gateway; then the sleep begins, or
\* with a single shard the loop is over.
SpawnShard ==
    /\ fleet_pc = "spawn"
    /\ shards' = [shards EXCEPT ![next_shard] = "running"]
    /\ gateways' = SetItem(gateways, next_shard, cycle)
    /\ started_at' = SetItem(started_at, next_shard, clock)
    /\ live' = live \cup {<<cycle, next_shard>>}
    /\ IF SleepNeeded(shard_count.n)
       THEN /\ fleet_pc' = "sleep"
            /\ wake_at' = clock + ShardDelay
            /\ UNCHANGED next_shard
       ELSE /\ fleet_pc' = IF next_shard + 1 < shard_count.n
                           THEN "spawn" ELSE "running"
            /\ next_shard' = next_shard + 1
            /\ UNCHANGED wake_at
    /\ UNCHANGED <<shard_count, autoshard, allow_resharding, clock,
                   ready_state, cycle, fired, fleet_error>>
    /\ UNCHANGED <<gatewayVars, wrapVars>>

\* manage_all_shards: anyio.sleep(5) returns; the loop goes on or ends and
\* the task group waits for its shards.
Wake ==
    /\ fleet_pc = "sleep"
    /\ clock >= wake_at
    /\ next_shard' = next_shard + 1
    /\ fleet_pc' = IF next_shard + 1 < shard_count.n THEN "spawn" ELSE "running"
    /\ UNCHANGED <<shard_count, autoshard, allow_resharding, wake_at, clock,
                   ready_state, gateways, shards, cycle, fired, started_at,
                   fleet_error, live>>
    /\ UNCHANGED <<gatewayVars, wrapVars>>

\* A second passes while the managing task is suspended; a sleep that is
\* over ends before more time passes.
Tick ==
    /\ fleet_pc \in {"sleep", "running"}
    /\ fleet_pc = "sleep" => clock < wake_at
    /\ clock < MaxClock
    /\ clock' = clock + 1
    /\ UNCHANGED <<fleet_pc, shard_count, autoshard, allow_resharding,
                   next_shard, wake_at, ready_state, gateways, shards, cycle,
                   fired, started_at, fleet_error, live>>
    /\ UNCHANGED <<gatewayVars, wrapVars>>

\* handle_ready for a READY dispatch of shard s (its first, or a later one
\* after the shard identified again).
HandleReady(s) ==
    /\ fleet_pc \in {"sleep", "running"}
    /\ shards[s] = "running"
    /\ ready_state' = SetItem(ready_state, s, TRUE)
    /\ fired' = IF AllReady(ready_state') THEN Min(fired + 1, MaxFired)
                ELSE fired
    /\ UNCHANGED <<fleet_pc, shard_count, autoshard, allow_resharding,
                   next_shard, wake_at, clock, gateways, shards, cycle,
                   started_at, fleet_error, live>>
    /\ UNCHANGED <<gatewayVars, wrapVars>>

\* The task group of manage_all_shards has no task left to wait for.
Joined_NoWait(sh) == TRUE

Joined(sh) == \A s \in ShardIds : sh[s] \notin {"running", "cancelled"}

\* An exception leaves run_shard of shard s: `out` is what the shard raised
\* (ShardError of a close code, or any other exception that left events()).
\* It unwinds open_websocket, whose finally stops the heartbeating, closes
\* the gateway with reconnect=False and cancels the shard's task group;
\* then the task group of manage_all_shards cancels every other task.
ShardRaises(s, out) ==
    /\ fleet_pc \in {"sleep", "running"}
    /\ shards[s] = "running"
    /\ out # "none"
    /\ shards' = [x \in ShardIds |->
                     IF x = s THEN "ended"
                     ELSE IF shards[x] = "running" THEN "cancelled"
                     ELSE shards[x]]
    /\ live' = live \ {<<cycle, s>>}
    /\ fleet_error' = out
    /\ fleet_pc' = "cancelling"
    /\ UNCHANGED <<shard_count, autoshard, allow_resharding, next_shard,
                   wake_at, clock, ready_state, gateways, cycle, fired,
                   started_at>>
    /\ UNCHANGED <<gatewayVars, wrapVars>>

\* A cancelled run_shard unwinds open_websocket: its finally stops the
\* heartbeating, closes the gateway with reconnect=False and cancels the
\* shard's task group.
Cleanup(s) ==
    /\ fleet_pc = "cancelling"
    /\ shards[s] = "cancelled"
    /\ shards' = [shards EXCEPT ![s] = "ended"]
    /\ live' = live \ {<<cycle, s>>}
    /\ UNCHANGED <<fleet_pc, shard_count, autoshard, allow_resharding,
                   next_shard, wake_at, clock, ready_state, gateways, cycle,
                   fired, started_at, fleet_error>>
    /\ UNCHANGED <<gatewayVars, wrapVars>>

\* manage_all_shards: every task of the group has ended and the group
\* raises the exception; run_bot_in_sharded_mode catches ReshardingNeeded.
GroupExit ==
    /\ fleet_pc = "cancelling"
    /\ Joined(shards)
    /\ fleet_pc' = IF fleet_error = "ReshardingNeeded" THEN "caught" ELSE "raised"
    /\ UNCHANGED <<shard_count, autoshard, allow_resharding, next_shard,
                   wake_at, clock, ready_state, gateways, shards, cycle, fired,
                   started_at, fleet_error, live>>
    /\ UNCHANGED <<gatewayVars, wrapVars>>

\* run_bot_in_sharded_mode: `except ReshardingNeeded`. When resharding is
\* allowed shard_count becomes what get_gateway_url(get_shard_count=True)
\* returns, the pair (url, n), and the loop continues; else the exception
\* is raised again.
ExceptReshardingNeeded(n) ==
    /\ fleet_pc = "caught"
    /\ IF AllowResharding(autoshard, allow_resharding)
       THEN /\ shard_count' = PairValue(n)
            /\ fleet_pc' = "call"
            /\ fleet_error' = "none"
       ELSE /\ fleet_pc' = "raised"
            /\ UNCHANGED <<shard_count, fleet_error>>
    /\ UNCHANGED <<autoshard, allow_resharding, next_shard, wake_at, clock,
                   ready_state, gateways, shards, cycle, fired, started_at,
                   live>>
    /\ UNCHANGED <<gatewayVars, wrapVars>>

ShardOutcomes == {ShardError(c) : c \in CloseCodes} \cup {"Exception"}

NextFleet ==
    \/ \E as \in BOOLEAN, ar \in BOOLEAN, n \in 1..MaxShards : RunAsync(as, ar, n)
    \/ ManageAllShards
    \/ SpawnShard
    \/ Wake
    \/ Tick
    \/ \E s \in ShardIds : HandleReady(s)
    \/ \E s \in ShardIds, out \in ShardOutcomes : ShardRaises(s, out)
    \/ \E s \in ShardIds : Cleanup(s)
    \/ GroupExit
    \/ \E n \in 1..MaxShards : ExceptReshardingNeeded(n)

SpecFleet == Init /\ [][NextFleet]_vars

(* ----------------------- the websocket wrapper ------------------------ *)

\* The wrapper is modelled with its thread, its queue and the task that
\* iterates run(); lomond's persist generator is reduced to the items it
\* yields: Connecting when it begins a connection, events while the
\* connection lasts (a Poll event each second at least), Disconnected when
\* it ends. persist looks at exit_event between two connections only.

\* run() is called: it returns at once when the wrapper is cancelled, else
\* the thread is spawned and the loop waits on the queue.
Run ==
    /\ consumer = "new"
    /\ IF exit_event
       THEN /\ consumer' = "ended"
            /\ UNCHANGED producer
       ELSE /\ consumer' = "get"
            /\ producer' = "next"
    /\ UNCHANGED <<queue, item, exit_event, link, kill_at, reconnected>>
    /\ UNCHANGED <<gatewayVars, fleetVars>>

\* _generator: the break on a cancelled wrapper, tested on each item.
Breaks_Never(e) == FALSE

Breaks(e) == e

\* _generator: persist yields its next item, or ends; the item is dropped
\* and the loop left when the wrapper is cancelled.
Produce(it) ==
    /\ producer = "next"
    /\ IF link = "down" /\ exit_event
       THEN \* persist returns
            /\ producer' = "put_done"
            /\ item' = "none"
            /\ UNCHANGED <<link, reconnected>>
       ELSE /\ IF link = "up"
               THEN /\ it \in {"Event", "Disconnected"}
                    /\ link' = IF it = "Event" THEN "up" ELSE "down"
                    /\ UNCHANGED reconnected
               ELSE /\ it = "Connecting"
                    /\ link' = "up"
                    /\ reconnected' =
                          (reconnected \/ (link = "down" /\ kill_at # "none"))
            /\ IF Breaks(exit_event)
               THEN producer' = "put_done" /\ item' = "none"
               ELSE producer' = "put" /\ item' = it
    /\ UNCHANGED <<queue, consumer, exit_event, kill_at>>
    /\ UNCHANGED <<gatewayVars, fleetVars>>

\* _generator: queue.put(item) returns; it blocks while the queue is full.
Put ==
    /\ producer = "put"
    /\ Len(queue) < QueueSize
    /\ queue' = Append(queue, item)
    /\ item' = "none"
    /\ producer' = "next"
    /\ UNCHANGED <<consumer, exit_event, link, kill_at, reconnected>>
    /\ UNCHANGED <<gatewayVars, fleetVars>>

\* _generator: queue.put(_DONE) returns and the thread ends.
PutDone ==
    /\ producer = "put_done"
    /\ Len(queue) < QueueSize
    /\ queue' = Append(queue, "DONE")
    /\ producer' = "ended"
    /\ UNCHANGED <<item, consumer, exit_event, link, kill_at, reconnected>>
    /\ UNCHANGED <<gatewayVars, fleetVars>>

\* run(): queue.get() returns; _DONE ends the stream, any other item is
\* yielded to the caller.
Get ==
    /\ consumer = "get"
    /\ queue # <<>>
    /\ queue' = Tail(queue)
    /\ consumer' = IF Head(queue) = "DONE" THEN "ended" ELSE "body"
    /\ UNCHANGED <<producer, item, exit_event, link, kill_at, reconnected>>
    /\ UNCHANGED <<gatewayVars, fleetVars>>

\* run(): the caller asks for the next item; the loop is left when the
\* wrapper is cancelled.
Resume ==
    /\ consumer = "body"
    /\ consumer' = IF exit_event THEN "ended" ELSE "get"
    /\ UNCHANGED <<queue, producer, item, exit_event, link, kill_at,
                   reconnected>>
    /\ UNCHANGED <<gatewayVars, fleetVars>>

\* close(kill=True), called by another task.
Kill ==
    /\ kill_at = "none"
    /\ exit_event' = CancelledAfterClose(exit_event, TRUE)
    /\ kill_at' = consumer
    /\ UNCHANGED <<queue, producer, item, consumer, link, reconnected>>
    /\ UNCHANGED <<gatewayVars, fleetVars>>

NextWrapper ==
    \/ Run
    \/ \E it \in {"Connecting", "Event", "Disconnected"} : Produce(it)
    \/ Put
    \/ PutDone
    \/ Get
    \/ Resume
    \/ Kill

\* The thread runs, persist yields an item within its poll time, and the
\* caller of run() comes back for the next item.
SpecWrapper ==
    /\ Init
    /\ [][NextWrapper]_vars
    /\ WF_vars(Run)
    /\ WF_vars(\E it \in {"Connecting", "Event", "Disconnected"} : Produce(it))
    /\ WF_vars(Put)
    /\ WF_vars(PutDone)
    /\ WF_vars(Get)
    /\ WF_vars(Resume)

(* ----------------------------- properties ----------------------------- *)

\* Positions in a handler's log.
AuthFrames(l) ==
    {i \in 1..Len(l) : l[i].kind = "frame" /\ l[i].name \in {"IDENTIFY", "RESUME"}}
HeartbeatFrames(l) ==
    {i \in 1..Len(l) : l[i].kind = "frame" /\ l[i].name = "HEARTBEAT"}
Yielded(l, name) ==
    {i \in 1..Len(l) : l[i].kind = "event" /\ l[i].name = name}

\* The log entry of close(code=1006, reconnect=True, clear_session_id=False).
ZombieCloseEntry == [kind |-> "close", name |-> "soft", a |-> ZombieCode, b |-> PyFalse]

\* The frame a HELLO must lead to, given what is stored.
ExpectedAuth ==
    IF session_id = None
    THEN [kind |-> "frame", name |-> "IDENTIFY", a |-> None, b |-> None]
    ELSE [kind |-> "frame", name |-> "RESUME", a |-> session_id, b |-> sequence]

\* The state is the end of a handled HELLO: gateway_hello was yielded.
HelloHandled == pc = "handled" /\ Yielded(log, "gateway_hello") # {}

\* The step is a heartbeater's tick (send_heartbeat up to its send or close).
TickStep == pc' = pc /\ heartbeats' # heartbeats

\* The step hands a heartbeat frame of a heartbeater to the websocket.
SendStarted == \E t \in Tasks : hb[t] # "sending" /\ hb'[t] = "sending"

\* The step is a tick that closed the connection as zombied and sent nothing.
TickCloses ==
    /\ hb_log' = <<TickStarted, ZombieCloseEntry>>
    /\ ws = "open" => ws' = "closing"
    /\ stop_heartbeating'
    /\ cancelled' = cancelled
    /\ ~SendStarted

\* The step is a tick that handed a heartbeat frame to the websocket and
\* closed nothing.
TickSends ==
    /\ hb_log' = <<TickStarted>>
    /\ ws' = ws
    /\ SendStarted

\* The step decodes an envelope and runs its handler up to its first send.
HandlesPayload == pc = "wait" /\ Len(log') >= 2 /\ log'[1].kind = "payload"

(* C1, as stated: when a HELLO payload is handled, exactly one of IDENTIFY
   or RESUME is sent, IDENTIFY iff no session id is stored and RESUME with
   the stored session id and sequence iff one is stored. TLC refutes it:
   when the socket is closing at the send, the failure is swallowed and the
   HELLO ends with neither frame sent. *)
C1_ExactlyOneAuthFrame ==
    HelloHandled =>
        /\ Cardinality(AuthFrames(log)) = 1
        /\ \A i \in AuthFrames(log) : log[i] = ExpectedAuth

(* C1, amended: when a HELLO payload is handled, exactly one of IDENTIFY or
   RESUME is handed to the websocket, IDENTIFY iff no session id is stored
   and RESUME with the stored session id and sequence iff one is stored; it
   is sent, and is the only such frame, if the socket is open at the send,
   and nothing is sent if the socket is closing or closed. *)
C1_HelloAuthenticates ==
    /\ pc = "hello_auth" => pending = ExpectedAuth
    /\ HelloHandled =>
        /\ Cardinality(AuthFrames(log)) = IF ws = "open" THEN 1 ELSE 0
        /\ \A i \in AuthFrames(log) : log[i] = ExpectedAuth

\* C1, witness: a HELLO ended with a RESUME sent for the stored session.
C1_Witness ==
    /\ HelloHandled
    /\ session_id # None
    /\ \E i \in AuthFrames(log) : log[i].name = "RESUME" /\ log[i].a = session_id

(* C2: at a heartbeater's tick with heartbeats = N, heartbeat_acks = N - 2,
   a stored session id and authenticated = TRUE, close(1006) is called with
   reconnect intended and the session id kept, and no heartbeat frame is
   handed to the websocket on that tick. *)
C2_ZombieTickCloses ==
    [][(/\ TickStep
        /\ heartbeat_acks = heartbeats - 2
        /\ session_id # None
        /\ authenticated)
       => TickCloses /\ session_id' = session_id]_vars

\* C2, witness: a tick at heartbeats = 2, heartbeat_acks = 0 closed the
\* connection.
C2_Witness ==
    /\ hb_log = <<TickStarted, ZombieCloseEntry>>
    /\ heartbeats = 3
    /\ heartbeat_acks = 0
    /\ session_id # None

(* C3, as stated: when an INVALIDATE_SESSION whose d is true is handled, a
   RESUME is sent again, no IDENTIFY is sent, session_id and sequence are
   left unchanged, and the event reports resumable = true. TLC refutes it:
   should_resume is the payload's text, never True, so the gateway resets
   the session and identifies. *)
C3_ResumableInvalidateResumes ==
    [][/\ (HandlesPayload /\ pc' = "inv_send" /\ cur'.d = PyTrue) =>
            /\ pending' = ResumeFrame(session_id, log'[2].a)
            /\ session_id' = session_id
            /\ sequence' = log'[2].a
       /\ (pc = "inv_send" /\ cur.d = PyTrue /\ pc' = "handled") =>
            /\ \A i \in AuthFrames(log') : log'[i].name = "RESUME"
            /\ \A j \in Yielded(log', "gateway_invalidate_session") :
                    log'[j].a = PyTrue]_vars

(* C4: when an INVALIDATE_SESSION whose d is false or absent is handled,
   sequence is 0, both heartbeat counters are 0 and session_id is cleared
   when the IDENTIFY frame is handed to the websocket, nothing having been
   sent before; the session is still cleared when the send ends, and
   gateway_invalidate_session is yielded only right after the IDENTIFY
   frame was sent. *)
C4_InvalidateResetsBeforeIdentify ==
    [][/\ (HandlesPayload /\ pc' = "inv_send" /\ cur'.d # PyTrue) =>
            /\ sequence' = 0
            /\ heartbeats' = 0
            /\ heartbeat_acks' = 0
            /\ session_id' = None
            /\ pending' = IdentifyFrame
            /\ AuthFrames(log') = {}
            /\ Yielded(log', "gateway_invalidate_session") = {}
       /\ (pc = "inv_send" /\ cur.d # PyTrue /\ pc' # "inv_send") =>
            /\ session_id = None
            /\ sequence = 0
            /\ pc' = "handled" => Yielded(log', "gateway_invalidate_session") # {}
            /\ \A j \in Yielded(log', "gateway_invalidate_session") :
                    j > 1 /\ log'[j - 1] = IdentifyFrame]_vars

\* C4, witness: a non-resumable INVALIDATE_SESSION was handled to its event.
C4_Witness ==
    /\ pc = "handled"
    /\ cur.op = INVALIDATE_SESSION
    /\ cur.d = PyFalse
    /\ Yielded(log, "gateway_invalidate_session") # {}
    /\ session_id = None

(* C5, as stated: at a tick where, before the tick, exactly one heartbeat is
   unacknowledged (heartbeats = heartbeat_acks + 1) on an authenticated
   session, a heartbeat frame is sent and the connection is not closed; the
   close with 1006 happens only when heartbeats > heartbeat_acks + 1 held
   before the tick. TLC refutes it: the counter is incremented before the
   test, so the tick closes. *)
C5_ToleratesOneMissedAck ==
    [][(TickStep /\ authenticated /\ session_id # None) =>
            /\ heartbeats = heartbeat_acks + 1 => TickSends
            /\ TickCloses => heartbeats > heartbeat_acks + 1]_vars

(* C5, amended: the zombie rule tolerates no missed ack at a tick: on an
   authenticated session with a stored session id, a tick closes the
   connection with 1006 and sends nothing exactly when at least one
   heartbeat was unacknowledged before the tick (heartbeats >=
   heartbeat_acks + 1), and hands a heartbeat frame to the websocket without
   closing exactly when heartbeats <= heartbeat_acks held before the tick. *)
C5_TickClosesOnMissedAck ==
    [][(TickStep /\ authenticated /\ session_id # None) =>
            IF heartbeats >= heartbeat_acks + 1
            THEN TickCloses /\ ~TickSends
            ELSE TickSends /\ ~TickCloses]_vars

\* C5, witness: a tick at heartbeats = 1, heartbeat_acks = 0 closed the
\* connection.
C5_Witness ==
    /\ hb_log = <<TickStarted, ZombieCloseEntry>>
    /\ heartbeats = 2
    /\ heartbeat_acks = 0
    /\ authenticated

(* C6, as stated: every server-requested HEARTBEAT results in a heartbeat
   frame sent in reply before gateway_heartbeat_received is yielded, in
   every reachable state of the counters and session. TLC refutes it: the
   reply runs send_heartbeat's zombie test, which closes the connection with
   1006 instead of sending, and the event is yielded all the same. *)
C6_HeartbeatAlwaysReplied ==
    \A j \in Yielded(log, "gateway_heartbeat_received") :
        \E i \in HeartbeatFrames(log) : i < j

(* C7: for every decoded envelope with a non-null s, whatever its opcode,
   the stored sequence equals that s when the opcode switch is reached; an
   envelope with a null s leaves the stored sequence as it was. *)
C7_SequenceStoredBeforeSwitch ==
    [][HandlesPayload =>
            /\ log'[2].kind = "switch"
            /\ log'[2].b = sequence
            /\ log'[2].a = IF log'[1].b # None THEN log'[1].b ELSE sequence]_vars

\* C7, witness: an envelope of an unknown opcode with s = 0 replaced a
\* stored sequence of 1 before the switch.
C7_Witness ==
    /\ Len(log) >= 2
    /\ log[1].kind = "payload"
    /\ log[1].a = UnknownOp
    /\ log[1].b = 0
    /\ log[2].b = 1
    /\ log[2].a = 0
    /\ sequence = 0

(* C8, as stated: while the session is authenticated, the stored sequence
   never decreases across the handling of a received envelope. TLC refutes
   it: the update stores the last s received, lower or not. *)
C8_SequenceNeverDecreases ==
    [][(HandlesPayload /\ authenticated /\ authenticated') =>
            sequence' >= sequence]_vars

(* C8, amended: while the session is authenticated, the stored sequence is
   the last non-null s received: short of the gateway's shutdown it
   decreases only when an envelope carries an s below the stored one, and
   then it equals that s, or when an INVALIDATE_SESSION is handled. *)
C8_SequenceFollowsLastReceived ==
    [][(authenticated /\ pc' # "done" /\ sequence' < sequence) =>
            /\ HandlesPayload
            /\ \/ log'[1].a = INVALIDATE_SESSION
               \/ /\ log'[1].b # None
                  /\ log'[1].b < sequence
                  /\ sequence' = log'[1].b]_vars

\* C8, witness: on an authenticated session an envelope with a lower s
\* lowered the stored sequence.
C8_Witness ==
    /\ authenticated
    /\ Len(log) >= 2
    /\ log[1].kind = "payload"
    /\ log[1].a = DISPATCH
    /\ log[1].b # None
    /\ log[1].b < log[2].b
    /\ sequence = log[1].b

(* C9, as stated: for every split of a compressed message into fragments,
   the payload is complete exactly when the accumulated buffer's trailing 4
   bytes equal the suffix, and the buffer is empty after each completed
   payload; so no handler leaves a buffer that ends with the suffix, short
   of a decompression error. TLC refutes it: the test is made on the
   fragment, and a suffix cut across two fragments is never seen. *)
C9_CompleteWhenBufferEndsWithSuffix ==
    pc \notin {"raised", "done"} => ~EndsWith(databuffer, ZLIB_FLUSH_SUFFIX)

(* C10: a zombie close (code 1006) leaves session_id and sequence as they
   were; until the next HELLO nothing but a received envelope changes them,
   and the session id stays stored unless an INVALIDATE_SESSION arrives; at
   that HELLO the counters are zeroed before the heartbeater restarts (they
   count the HELLO's immediate heartbeat only), and the frame the HELLO
   hands to the websocket is a RESUME with the stored session_id and
   sequence. *)
C10_ZombieCloseKeepsSession ==
    /\ [][/\ (TickStep /\ Len(hb_log') = 2 /\ hb_log'[2].kind = "close") =>
                /\ session_id' = session_id
                /\ sequence' = sequence
                /\ zombied'
          /\ (HandlesPayload /\ ZombieCloseEntry \in {log'[i] : i \in 1..Len(log')}) =>
                /\ session_id' = session_id
                /\ sequence' = log'[2].a
                /\ zombied'
          /\ (~HandlesPayload /\ pc' # "done" /\ pc # "done") =>
                /\ session_id' = session_id
                /\ sequence' = sequence
          /\ (pc = "hello_hb" /\ pc' = "hello_auth") =>
                /\ heartbeats = 1 /\ heartbeat_acks = 0
                /\ heartbeats' = 1 /\ heartbeat_acks' = 0]_vars
    /\ [](zombied => session_id # None)
    /\ []((zombied /\ pc = "hello_auth") =>
            pending = [kind |-> "frame", name |-> "RESUME",
                       a |-> session_id, b |-> sequence])

\* C10, witness: after a zombie close, on the next connection, a HELLO
\* handed a RESUME to the websocket.
C10_Witness ==
    /\ zombied
    /\ pc = "hello_auth"
    /\ pending.name = "RESUME"
    /\ heartbeats = 1
    /\ heartbeat_acks = 0

\* The step handles a RECONNECT payload.
HandlesReconnect == HandlesPayload /\ log'[1].a = RECONNECT

ClosingHandled ==
    /\ pc = "wait"
    /\ Len(log') = 1
    /\ log'[1].kind = "event"
    /\ log'[1].name = "websocket_closed"

\* C12: consuming a Closing event stops heartbeating (the stop event is
\* set and no heartbeater is left waiting for its timer), zeroes both
\* heartbeat counters, yields one websocket_closed event with a close code,
\* and leaves the session id and the sequence as they were; a HELLO handled
\* while a session id is stored hands the websocket a RESUME for it.
C12_ClosingStopsHeartbeatKeepsSession ==
    /\ [][ClosingHandled =>
            /\ stop_heartbeating'
            /\ \A t \in Tasks : hb'[t] # "waiting"
            /\ heartbeats' = 0
            /\ heartbeat_acks' = 0
            /\ log'[1].a \in CloseCodes
            /\ pc' \in {"handled", "raised"}
            /\ session_id' = session_id
            /\ sequence' = sequence]_vars
    /\ []((pc = "hello_auth" /\ session_id # None) =>
            (pending.name = "RESUME" /\ pending.a = session_id))

\* C12, witness: a Closing event with a normal close code was consumed
\* while a session id was stored and a heartbeat of that connection had
\* not been acknowledged; the session id is still stored.
C12_Witness ==
    /\ pc = "handled"
    /\ Len(log) = 1
    /\ log[1].name = "websocket_closed"
    /\ log[1].a = NormalCode
    /\ session_id # None
    /\ sequence # None
    /\ acks_owed > 0
    /\ heartbeats = 0

\* C13 (fails): at most one heartbeater is waiting for its timer.
C13_AtMostOneHeartbeater ==
    Cardinality({t \in Tasks : hb[t] = "waiting"}) <= 1

\* C14 (fails): a heartbeater that was alive when close() or a Closing
\* event stopped heartbeating ends at its next wake-up: it may finish the
\* send it was suspended in, and is never again waiting for its timer.
C14_StoppedHeartbeaterEnds ==
    \A t \in stale : hb[t] = "sending"

\* The acks have stopped arriving on an open connection whose session is
\* authenticated and has a session id, and a heartbeater is alive.
SilentSession ==
    /\ link_dead
    /\ authenticated
    /\ session_id # None
    /\ ws = "open"
    /\ ~stop_heartbeating
    /\ \E t \in Tasks : hb[t] # "none"

\* The number of frames in a log.
FramesSent(l) ==
    Cardinality({i \in 1..Len(l) : l[i].kind \in {"frame", "sent"}})

DispatchHandled(t, h) ==
    /\ pc = "handled"
    /\ Len(log) = 4
    /\ log[4].kind = "dispatch"
    /\ log[4].name = t
    /\ handshake = h

\* C16 (fails): the session is authenticated once the READY that answers
\* this connection's IDENTIFY has been handled, and also once the RESUMED
\* that answers this connection's RESUME has been handled.
C16_AuthenticatedAfterEitherHandshake ==
    (DispatchHandled("READY", "IDENTIFY") \/ DispatchHandled("RESUMED", "RESUME"))
        => authenticated

\* The step ends a HELLO handler.
HelloEnds == pc \in {"hello_hb", "hello_auth"} /\ pc' \notin {"hello_hb", "hello_auth"}

\* C17 (fails): every HELLO handler ends by yielding gateway_hello, once,
\* as its last effect: after heartbeating was restarted, after the one
\* immediate heartbeat and after the IDENTIFY/RESUME attempt.
C17_OneHelloEventPerHello ==
    [][HelloEnds =>
        /\ pc = "hello_auth"
        /\ pc' = "handled"
        /\ Yielded(log', "gateway_hello") = {Len(log')}
        /\ Cardinality(HeartbeatFrames(log')) <= 1
        /\ \A i \in HeartbeatFrames(log') \cup AuthFrames(log') : i < Len(log')]_vars

\* C18: a HELLO zeroes the heartbeat counters whatever they held: while
\* its immediate heartbeat is being sent, and at the moment heartbeating
\* restarts, heartbeats = 1 and heartbeat_acks = 0; from then to the end of
\* the HELLO handler no ack is counted and heartbeats grows only by the
\* ticks of the heartbeater.
C18_HelloResetsCounters ==
    /\ [](pc = "hello_hb" => (heartbeats = 1 /\ heartbeat_acks = 0))
    /\ []((pc = "hello_auth" \/ HelloHandled) =>
            (heartbeats >= 1 /\ heartbeat_acks = 0))
    /\ [][/\ (HandlesPayload /\ log'[1].a = HELLO) =>
                (heartbeats' = 1 /\ heartbeat_acks' = 0)
          /\ (pc = "hello_hb" /\ pc' = "hello_auth") =>
                (heartbeats' = 1 /\ heartbeat_acks' = 0 /\ ~stop_heartbeating')
          /\ (pc = "hello_auth" /\ heartbeats' # heartbeats) =>
                /\ pc' = pc
                /\ heartbeats' = heartbeats + 1
                /\ Len(hb_log') >= 1
                /\ hb_log'[1] = TickStarted]_vars

\* C18, witness: the previous connection was closed as zombied (heartbeats
\* was at least 2), and the HELLO of the next connection is sending its
\* immediate heartbeat with the counters at 1 and 0.
C18_Witness ==
    /\ zombied
    /\ pc = "hello_hb"
    /\ ws = "open"
    /\ heartbeats = 1
    /\ heartbeat_acks = 0

\* The close() calls a step newly logged.
ClosesLogged ==
    {e \in {log'[i] : i \in 1..Len(log')} : e.kind = "close" /\ log' # log}
    \cup {e \in {hb_log'[i] : i \in 1..Len(hb_log')} :
            e.kind = "close" /\ hb_log' # hb_log /\ TickStep}

\* The sequence and the heartbeat count as close() finds them in the
\* step: a handler has taken the sequence from its envelope, send_heartbeat
\* has counted its heartbeat.
SequenceAtClose == IF HandlesPayload THEN log'[2].a ELSE sequence
HeartbeatsAtClose(e) == IF e.a = ZombieCode THEN heartbeats + 1 ELSE heartbeats

\* What every close() does, and what it leaves when clear_session_id is
\* false.
CloseEffect(e) ==
    /\ stop_heartbeating'
    /\ \A t \in Tasks : hb'[t] # "waiting"
    /\ cancelled' = (cancelled \/ e.name = "kill")
    /\ e.b = PyFalse =>
          /\ session_id' = session_id
          /\ sequence' = SequenceAtClose
          /\ heartbeats' = HeartbeatsAtClose(e)
          /\ heartbeat_acks' = heartbeat_acks

\* C19 (as claimed; fails): close() with clear_session_id = true leaves the
\* sequence at zero.
C19_CloseZeroesSequence ==
    [][\A e \in ClosesLogged :
        /\ CloseEffect(e)
        /\ e.b = PyTrue =>
              /\ session_id' = None
              /\ sequence' = 0
              /\ heartbeats' = 0
              /\ heartbeat_acks' = 0]_vars

\* C19: every close() sets the stop event (no heartbeater is left waiting)
\* and cancels the websocket's run exactly when it is a kill (reconnect =
\* false); with clear_session_id = true the session id and the sequence are
\* None and both counters zero afterwards, with clear_session_id = false
\* all four are as close() found them.
C19_CloseClearsOrKeeps ==
    [][\A e \in ClosesLogged :
        /\ CloseEffect(e)
        /\ e.b = PyTrue =>
              /\ session_id' = None
              /\ sequence' = None
              /\ heartbeats' = 0
              /\ heartbeat_acks' = 0]_vars

\* C19, witness: the shard's last close() (kill, clear_session_id = true)
\* ran on a connection that had sent a RESUME for a stored session id: the
\* session id and the sequence are None.
C19_Witness ==
    /\ pc = "done"
    /\ log = <<CloseCall(ShutdownClose)>>
    /\ handshake = "RESUME"
    /\ session_id = None
    /\ sequence = None
    /\ cancelled
    /\ stop_heartbeating

\* C20: a websocket_closed with code 4004 raises InvalidTokenException out
\* of the shard, one with 4011 raises ReshardingNeeded, one with any other
\* code raises nothing and the shard goes on. After InvalidTokenException
\* the shard is shut down and nothing is started again: the error stays,
\* the main task never runs again and the websocket never connects again.
C20_CloseCodeErrors ==
    /\ [][/\ ClosingHandled =>
                /\ log'[1].a = InvalidTokenCode =>
                      (pc' = "raised" /\ error' = "InvalidTokenException")
                /\ log'[1].a = ReshardingCode =>
                      (pc' = "raised" /\ error' = "ReshardingNeeded")
                /\ log'[1].a \notin {InvalidTokenCode, ReshardingCode} =>
                      (pc' = "handled" /\ error' = "none")
          /\ error = "InvalidTokenException" =>
                /\ error' = error
                /\ pc' \in {"raised", "done"}
                /\ ws' # "connecting"
                /\ hb' = hb \/ \A t \in Tasks : hb'[t] = "none"]_vars
    /\ [](error # "none" => pc \in {"raised", "done"})

\* C20, witness: a close with code 4004 ended the shard: the exception
\* left events(), the websocket was killed and is closed.
C20_Witness ==
    /\ error = "InvalidTokenException"
    /\ pc = "done"
    /\ cancelled
    /\ ws = "closed"

(* ------------------------ the shard fleet's claims -------------------- *)

\* The shard ids of the boot cycle in progress.
CycleIds == 0..(shard_count.n - 1)

\* A boot cycle is in progress: manage_all_shards is between its first
\* spawn and its end.
Booting == fleet_pc \in {"spawn", "sleep", "running"}

\* C21: when a shard raised ReshardingNeeded and resharding is allowed,
\* every shard of the fleet is cancelled, the shard count becomes the
\* integer n the gateway-info endpoint returns, and the boot cycle that
\* follows starts: it raises nothing and begins with shard 0 of 0..n-1.
\* The code binds shard_count to the pair get_gateway_url returns, and
\* range(shard_count) raises TypeError: TLC refutes the statement.
C21_ReshardRestartsFleet ==
    [][/\ (fleet_pc = "caught" /\ AllowResharding(autoshard, allow_resharding)) =>
            /\ \A s \in ShardIds : shards[s] # "running"
            /\ fleet_pc' = "call"
            /\ shard_count' \in {IntValue(n) : n \in 1..MaxShards}
       /\ fleet_pc = "call" =>
            /\ fleet_pc' = "spawn"
            /\ fleet_error' = "none"
            /\ next_shard' = 0
            /\ shard_count' \in {IntValue(n) : n \in 1..MaxShards}]_vars

\* C22: with allow_resharding = false a ReshardingNeeded is never answered
\* by a new shard count and a restart: it is raised to the caller of
\* run_async, whatever autoshard is. run_async passes
\* `autoshard or allow_resharding`: TLC refutes the statement with
\* autoshard = true.
C22_NoReshardingUnlessAllowed ==
    [][(fleet_pc = "caught" /\ ~allow_resharding) =>
            /\ fleet_pc' = "raised"
            /\ fleet_error' = "ReshardingNeeded"
            /\ shard_count' = shard_count]_vars

\* C23: in one boot cycle shards_ready fires exactly once: not before every
\* shard of the cycle posted READY, and never a second time. handle_ready
\* fires whenever every entry is true, so a later READY of a ready shard
\* fires it again: TLC refutes the statement.
C23_AllReadyFiresOnce ==
    /\ [](fired <= 1)
    /\ [](Booting /\ fired >= 1 => \A s \in CycleIds : ready_state[s])

\* C25: when a boot cycle starts, _ready_state holds exactly the ids of the
\* cycle, each false; and once every shard of the cycle has posted READY,
\* shards_ready has fired. Entries of an earlier cycle with more shards are
\* never removed: TLC refutes the statement.
C25_ReadinessMapFresh ==
    /\ [][(fleet_pc = "call" /\ fleet_pc' = "spawn") =>
            /\ DOMAIN ready_state' = 0..(shard_count.n - 1)
            /\ \A s \in DOMAIN ready_state' : ~ready_state'[s]]_vars
    /\ [](Booting /\ (\A s \in CycleIds : ready_state[s]) => fired >= 1)

\* C26: _gateways holds a handle for a shard exactly while the shard runs.
\* No entry is ever removed: TLC refutes the statement after a shard raised.
C26_RegistryHoldsRunningShards ==
    \A s \in ShardIds : (s \in DOMAIN gateways) <=> (shards[s] = "running")

\* C24: shards are started in increasing id order, one id at a time from 0;
\* shard 0 starts at once; with two or more shards shard k starts at
\* ShardDelay * k seconds, not before the delay that follows the start of
\* shard k-1 is over; with one shard the managing task never sleeps.
C24_StaggeredStart ==
    /\ [](\A s \in DOMAIN started_at : started_at[s] = ShardDelay * s)
    /\ [][(started_at' # started_at /\ started_at' # NoEntries) =>
            LET k == Cardinality(DOMAIN started_at) IN
            /\ DOMAIN started_at = 0..(k - 1)
            /\ DOMAIN started_at' = 0..k
            /\ k = 0 => clock' = 0
            /\ k >= 1 => /\ shard_count.n >= 2
                         /\ clock' >= started_at[k - 1] + ShardDelay]_vars
    /\ [](fleet_pc = "sleep" => shard_count.n >= 2)

\* C24, witness: three shards were started, at 0, 5 and 10 seconds, and the
\* managing task waits for its task group.
C24_Witness ==
    /\ fleet_pc = "running"
    /\ shard_count = IntValue(3)
    /\ DOMAIN started_at = 0..2
    /\ started_at[1] = ShardDelay
    /\ started_at[2] = 2 * ShardDelay
    /\ \A s \in 0..2 : shards[s] = "running"

\* C27: no exception of a send on a closing or closed websocket leaves
\* events(), whichever send it is. Only the heartbeater's send and the
\* IDENTIFY/RESUME sent on HELLO are guarded; TLC refutes the statement
\* with one of the other sends.
C27_ClosedSendNeverSurfaces ==
    error \notin {"WebSocketClosing", "WebSocketClosed"}

\* A Binary event with corrupt data is handled in this step.
CorruptReceived == \E n \in 0..MaxBody : RecvCorrupt(n)

\* C28: a compressed payload that cannot be inflated raises nothing out of
\* events(): the shard's run loop goes on and no error is recorded. The
\* decompression is not guarded, the exception leaves events() and ends
\* run_shard: TLC refutes the statement.
C28_MalformedPayloadHandled ==
    [][CorruptReceived => (pc' # "raised" /\ error' = "none")]_vars

\* A Connecting event is handled in this step.
ConnectingHandled == ws # "connecting" /\ ws' = "connecting"

\* C29: every Connecting event empties the decompression buffer and
\* installs a fresh inflate context, so the buffer never holds bytes of two
\* connections: a non-empty buffer starts with the zlib header exactly when
\* the context is fresh, and holds no header after its first byte.
C29_ConnectingResetsInflater ==
    /\ [][ConnectingHandled =>
            (databuffer' = <<>> /\ decompressor' = "fresh")]_vars
    /\ [](databuffer # <<>> =>
            /\ (decompressor = "fresh") = (databuffer[1] = ZlibHeader)
            /\ \A i \in 2..Len(databuffer) : databuffer[i] # ZlibHeader)

\* C29, witness: the last Connecting event discarded fragments buffered on
\* the connection before, and a dispatch of the new connection was inflated
\* and decoded.
C29_Witness ==
    /\ dropped
    /\ pc = "handled"
    /\ DispatchYielded
    /\ databuffer = <<>>

\* C30: every gateway_dispatch_received event events() yields is passed to
\* the State handler before anything else is taken from events(); the
\* handler runs for one dispatch at a time, only for a yielded dispatch,
\* and while it runs no transport event of the shard is handled and no
\* byte is taken from the connection; when it ends the dispatch is done
\* with and the next event is awaited.
C30_StateHandlerOncePerDispatch ==
    /\ [][(pc = "handled" /\ DispatchYielded /\ pc' # "handled") =>
            (pc' = "state_handler" /\ log' = log)]_vars
    /\ [][(pc' = "state_handler" /\ pc # "state_handler") =>
            (pc = "handled" /\ DispatchYielded)]_vars
    /\ [][pc = "state_handler" =>
            \/ /\ pc' = "state_handler"
               /\ log' = log
               /\ UNCHANGED <<zlibVars, serverVars>>
            \/ /\ pc' = "wait"
               /\ log' = <<>>]_vars
    /\ [](pc = "state_handler" =>
            Cardinality({i \in 1..Len(log) : log[i].kind = "dispatch"}) = 1)

\* C30, witness: the State handler runs for a yielded dispatch, the one
\* with the highest sequence number.
C30_Witness ==
    /\ pc = "state_handler"
    /\ sequence = MaxSeq
    /\ log[4].kind = "dispatch"

(* ------------------------- the remaining claims ----------------------- *)

\* A DISPATCH payload is handled in this step.
HandlesDispatch == HandlesPayload /\ log'[1].a = DISPATCH

\* C31: a DISPATCH without an event name yields nothing, counts nothing and
\* leaves authenticated and session_id alone; a DISPATCH with a name
\* increments the counter of that name by one and then yields exactly one
\* gateway_dispatch_received event of that name; READY sets authenticated
\* and stores the payload's session id in the step that yields its event,
\* any other name leaves both alone.
C31_DispatchEffects ==
    [][HandlesDispatch =>
        LET t == log'[1].name IN
        /\ t = "" => /\ Len(log') = 2
                     /\ UNCHANGED <<authenticated, session_id>>
        /\ t # "" => /\ Len(log') = 4
                     /\ log'[3] = Eff("count", t, 1, None)
                     /\ log'[4].kind = "dispatch"
                     /\ log'[4].name = t
        /\ t = "READY" => /\ authenticated'
                          /\ session_id' = log'[4].a
                          /\ session_id' # None
        /\ t \notin {"", "READY"} =>
              UNCHANGED <<authenticated, session_id>>]_vars

\* C31, witness: a DISPATCH without an event name was handled on a session
\* that is not authenticated: nothing was yielded or counted.
C31_Witness ==
    /\ pc = "handled"
    /\ Len(log) = 2
    /\ log[1].a = DISPATCH
    /\ log[1].name = ""
    /\ ~authenticated
    /\ sequence # None

\* C32: when close(kill=True) is called while run() waits on the queue, the
\* stream ends; persist begins no connection after the kill; and run() on
\* a wrapper that is already cancelled ends at once: no thread is started
\* and nothing is yielded.
C32_KilledStreamEnds ==
    /\ (kill_at = "get") ~> (consumer = "ended")
    /\ [](~reconnected)
    /\ [][(consumer = "new" /\ exit_event /\ consumer' # "new") =>
            (consumer' = "ended" /\ producer' = "none" /\ queue' = <<>>)]_vars
    /\ [](kill_at = "new" => (consumer \in {"new", "ended"} /\ producer = "none"))

\* C32, witness: the wrapper was killed while run() waited on the queue;
\* the thread has put _DONE and ended and the stream has ended.
C32_Witness ==
    /\ kill_at = "get"
    /\ consumer = "ended"
    /\ producer = "ended"
    /\ queue = <<>>

\* C39: once the wrapper is cancelled the thread is never blocked in a put
\* on a full queue after run() has ended. Nothing empties the queue when
\* run() leaves its loop, so the thread stays in its put for ever: TLC
\* refutes the statement.
C39_ProducerNeverStuck ==
    ~(/\ exit_event
      /\ consumer = "ended"
      /\ producer \in {"put", "put_done"}
      /\ Len(queue) = QueueSize)

HandlesOther == HandlesPayload /\ log'[1].a \notin HandledOps

\* C34: a payload whose opcode no branch handles (PRESENCE, or an integer
\* that is no opcode) yields no event, sends no frame, calls no close(),
\* raises nothing and leaves the session, the heartbeat counters and the
\* heartbeating alone, but for the sequence, which becomes the payload's
\* `s` when that is not null.
C34_UnhandledOpcodeIgnored ==
    [][HandlesOther =>
        /\ Len(log') = 2
        /\ pc' = "handled"
        /\ error' = error
        /\ sequence' = IF log'[1].b # None THEN log'[1].b ELSE sequence
        /\ UNCHANGED <<session_id, authenticated, heartbeats, heartbeat_acks,
                       stop_heartbeating, ws, cancelled, pending_close, hb,
                       pending>>]_vars

\* C34, witness: a PRESENCE payload with s = 0 was handled on an
\* authenticated session that had sent heartbeats: only the sequence
\* changed.
C34_Witness ==
    /\ pc = "handled"
    /\ Len(log) = 2
    /\ log[1].a = PRESENCE
    /\ log[1].b = 0
    /\ sequence = 0
    /\ authenticated
    /\ heartbeats >= 1

\* The step is a step of a heartbeater task: a tick or the end of its send.
HeartbeaterStep == \E t \in Tasks : HbTick(t) \/ HbSendDone(t)

\* C35: no step of a heartbeater task, the tick that closes a zombied
\* connection included, writes session_id, sequence, authenticated, the
\* decompression buffer or the inflate context; of the gateway's fields it
\* writes the heartbeat counter and the stop event only, and it does not
\* touch what the main task is handling.
C35_HeartbeaterWritesNoSession ==
    [][HeartbeaterStep =>
        /\ UNCHANGED <<session_id, sequence, authenticated, databuffer,
                       decompressor, heartbeat_acks>>
        /\ UNCHANGED <<pc, cur, pending, log>>]_vars

\* C35, witness: a heartbeater closed a zombied connection; the session id,
\* the sequence and the authenticated flag are as they were.
C35_Witness ==
    /\ hb_log = <<TickStarted, ZombieCloseEntry>>
    /\ stop_heartbeating
    /\ session_id # None
    /\ sequence = MaxSeq
    /\ authenticated
    /\ databuffer = <<>>

\* C36: in every reachable state heartbeat_acks <= heartbeats, the server
\* acknowledging only heartbeats it received (Feasible): no reset of the
\* counters leaves an acknowledgement in flight to be counted against a
\* zeroed heartbeat counter.
C36_AcksNeverExceedHeartbeats == heartbeat_acks <= heartbeats

\* The step is the HELLO branch up to the awaited send in send_heartbeat.
HelloHeartbeatReached == pc # "hello_hb" /\ pc' = "hello_hb"

\* C38: whatever the heartbeat counters, the session id and the
\* authenticated flag were before, handling HELLO hands a heartbeat frame
\* to the websocket and calls no close: the zombie test of the immediate
\* heartbeat sees one heartbeat and no acknowledgement.
C38_HelloHeartbeatNeverZombie ==
    [][HelloHeartbeatReached =>
        /\ pending' = HeartbeatFrame(sequence')
        /\ heartbeats' = 1 /\ heartbeat_acks' = 0
        /\ \A i \in 1..Len(log') : log'[i].kind # "close"
        /\ UNCHANGED <<ws, session_id, authenticated, zombied>>]_vars

\* C38, witness: a HELLO was handled on a connection with a session,
\* authenticated, and a heartbeat of before still unacknowledged; the
\* immediate heartbeat is about to be sent.
C38_Witness ==
    /\ pc = "hello_hb"
    /\ cur.op = HELLO
    /\ pending = HeartbeatFrame(sequence)
    /\ session_id # None
    /\ authenticated
    /\ acks_owed = 1
    /\ heartbeats = 1 /\ heartbeat_acks = 0
    /\ ws = "open"

\* The frames of the handler in progress: the one being sent and those sent.
HandlerFrames ==
    {f \in {pending} \cup {log[i] : i \in 1..Len(log)} : f.kind = "frame"}

\* C37: every RESUME frame carries a session id, and an IDENTIFY frame is
\* sent only while no session id is stored, whatever HELLO,
\* INVALIDATE_SESSION, READY, RECONNECT, Closing and close() came before.
C37_ResumeHasSessionIdentifyHasNone ==
    \A f \in HandlerFrames :
        /\ f.name = "RESUME" => f.a # None
        /\ f.name = "IDENTIFY" => session_id = None

\* C37, witness: a HELLO on a connection made after a session was stored
\* was answered with a RESUME that carries the stored session id.
C37_Witness ==
    /\ pc = "handled"
    /\ session_id # None
    /\ ~authenticated
    /\ \E i \in 1..Len(log) :
          log[i].kind = "frame" /\ log[i].name = "RESUME" /\ log[i].a = session_id

====
